---- MODULE Spec2Model ----
(***************************************************************************)
(* A model of datalad_next/tree.py: the directory tree walk of Tree (plain *)
(* mode) with its node generator, statistics collector and line renderer.  *)
(*                                                                         *)
(* Text is a sequence of code points, so that str.startswith and the       *)
(* ordering of sorted() are computed as Python computes them.  A path is   *)
(* the sequence of its parts below "/"; the tree command is run on a       *)
(* directory tree that does not change during the run.                     *)
(***************************************************************************)
EXTENDS Integers, Sequences, FiniteSets, TLC

(***************************************************************************)
(* Bounds of the model.                                                    *)
(***************************************************************************)
\* at most this many entries exist below the tree root
MaxEntries == 3
\* the same, where Tree and DatasetTree are run with every argument
MaxEntriesModes == 2
\* no entry lies deeper than this below the tree root
MaxFsDepth == 2
\* the largest max_depth argument tried
MaxDepthArg == 1

(***************************************************************************)
(* Text.                                                                   *)
(***************************************************************************)
\* the character "." that path.name.startswith(".") looks for
Dot == 46

\* the names an entry can have: ".h", "a", "b"
NameHidden == <<46, 104>>
NameA == <<97>>
NameB == <<98>>
Names == {NameHidden, NameA, NameB}

\* the directory the command is run on, "/r", and an argument that names
\* nothing, "/x"
RootPath == << <<114>> >>
MissingPath == << <<120>> >>

RECURSIVE StrLess(_, _)
\* Python's s < t on str: by code point, a proper prefix is smaller
StrLess(s, t) ==
    IF t = <<>> THEN FALSE
    ELSE IF s = <<>> THEN TRUE
    ELSE IF Head(s) # Head(t) THEN Head(s) < Head(t)
    ELSE StrLess(Tail(s), Tail(t))

RECURSIVE PathLess(_, _)
\* pathlib's p < q: the lists of parts compared as Python compares lists
PathLess(p, q) ==
    IF q = <<>> THEN FALSE
    ELSE IF p = <<>> THEN TRUE
    ELSE IF Head(p) # Head(q) THEN StrLess(Head(p), Head(q))
    ELSE PathLess(Tail(p), Tail(q))

\* path.name and path.parent
PathName(p) == p[Len(p)]
PathParent(p) == SubSeq(p, 1, Len(p) - 1)

\* str.startswith(".")
StartsWithDot(s) == Len(s) > 0 /\ s[1] = Dot

\* whether p lies strictly below q
IsBelow(p, q) == Len(p) > Len(q) /\ SubSeq(p, 1, Len(q)) = q

(***************************************************************************)
(* The directory trees the command is run on.                              *)
(***************************************************************************)
\* what an entry can be: a file, a directory, or neither (a dangling
\* symlink, a fifo, a socket)
Kinds == {"file", "dir", "other"}

RECURSIVE EntrySets(_)
\* the sets of at most n paths below the root that are closed under parent
EntrySets(n) ==
    IF n = 0 THEN {{}}
    ELSE LET smaller == EntrySets(n - 1)
         IN  smaller \cup
             { S \cup {Append(p, nm)} :
                 <<S, p, nm>> \in
                   { t \in smaller \X (UNION smaller \cup {RootPath}) \X Names :
                       /\ t[2] \in t[1] \cup {RootPath}
                       /\ Len(t[2]) - Len(RootPath) < MaxFsDepth } }

HasChild(S, p) == \E q \in S : PathParent(q) = p

\* the trees of at most n entries: every entry that has children is a
\* directory
TreesUpTo(n) ==
    UNION { { f \in [S -> Kinds] : \A p \in S : HasChild(S, p) => f[p] = "dir" } :
            S \in EntrySets(n) }

FileSystems == TreesUpTo(MaxEntries)
SmallFileSystems == TreesUpTo(MaxEntriesModes)

\* the sets of directories is_dataset() can be true for
DatasetChoices(f) == SUBSET ({p \in DOMAIN f : f[p] = "dir"} \cup {RootPath})

(***************************************************************************)
(* The arguments of Tree(...).                                             *)
(***************************************************************************)
\* max_depth=None, and max_depth=m
None == <<>>
Some(m) == <<m>>

\* the largest max_dataset_depth argument tried
MaxDatasetDepthArg == 1

\* Tree(root, ...) on the directory the command is run on
TreeArgs(FullPaths) ==
    [ class : {"Tree"},
      root : {RootPath},
      max_depth : {None} \cup {Some(m) : m \in 0..MaxDepthArg},
      max_dataset_depth : {0},
      include_files : BOOLEAN,
      include_hidden : BOOLEAN,
      full_paths : FullPaths,
      traverse_datasets : BOOLEAN,
      skip_root : BOOLEAN ]

\* the largest max_depth given to a DatasetTree: the levels of content
\* shown below each dataset
MaxContentDepthArg == 2

\* DatasetTree(root, ..., max_dataset_depth=d)
DatasetTreeArgs ==
    [ class : {"DatasetTree"},
      root : {RootPath},
      max_depth : {None} \cup {Some(m) : m \in 0..MaxContentDepthArg},
      max_dataset_depth : 0..MaxDatasetDepthArg,
      include_files : BOOLEAN,
      include_hidden : BOOLEAN,
      full_paths : BOOLEAN,
      traverse_datasets : {TRUE},
      skip_root : BOOLEAN ]

\* calls that name another root (one that names nothing, and the entry "a"
\* of the tree, whatever it is) or pass a negative max_depth
EdgeArgs ==
    [ class : {"Tree", "DatasetTree"},
      root : {MissingPath, Append(RootPath, NameA)},
      max_depth : {None, Some(-1)},
      max_dataset_depth : {0},
      include_files : {TRUE},
      include_hidden : {TRUE},
      full_paths : {FALSE},
      traverse_datasets : {TRUE},
      skip_root : {FALSE} ]
    \cup
    [ class : {"Tree", "DatasetTree"},
      root : {RootPath},
      max_depth : {Some(-1)},
      max_dataset_depth : {0},
      include_files : {TRUE},
      include_hidden : {TRUE},
      full_paths : {FALSE},
      traverse_datasets : {TRUE},
      skip_root : {FALSE} ]

VARIABLES
    fs,         \* the directory tree: entry path -> kind
    datasets,   \* the directories for which is_dataset() is true
    args,       \* the arguments the Tree is constructed with
    pc,         \* "init", "error", "ready", "created", "running",
                \* "replaying", "done", "crashed", "reported"
    tree,       \* the Tree object's configuration fields
    lines,      \* Tree._lines
    stats,      \* Tree._stats
    stack,      \* the frames of the suspended _generate_tree_nodes calls
    dsgen,      \* the suspended generators of a DatasetTree
    levels,     \* levels_with_exhausted_subtree of _yield_lines
    emitted,    \* the nodes generate_nodes has yielded so far
    printed,    \* the lines the command has printed so far
    report,     \* what stats() returned
    first,      \* what an earlier run of the command printed and reported
    listed,     \* the directories the plain walk has called iterdir() on
    content_of, \* for each emitted node, the dataset node (ds of
                \* _generate_dataset_nodes) whose content walk gave it, if any
    returned    \* what the latest to_string() call returned or raised

\* datalad_next.itertools: route_in(g(route_out(input, store, splitter)),
\* store, joiner)
VARIABLES
    input,        \* the elements of the input iterable, all of them
    splitter,     \* the splitter: element -> <<data_to_process, data_to_store>>
    iterable,     \* the elements route_out has not taken yet
    data_store,   \* the list shared by route_out and route_in
    route_out_gen,  \* route_out: "unused", "suspended" or "exhausted"
    routed,       \* what route_out has yielded to its consumer
    g_gen,        \* the generator between the two: what it holds, its state
    route_in_gen, \* route_in: the line it is suspended at, its locals
    joined        \* what route_in has yielded

\* a call of a function of datalad_next.itertools or datalad_next.utils
VARIABLES
    call,       \* the function called and its arguments
    outcome     \* what the call did: <<>> before it is made

\* is_dataset() behind its lru_cache, during one walk of a DatasetTree
VARIABLES
    lru,        \* the cache of is_dataset: its entries, the least recently
                \* used first
    truth,      \* the directories that are datasets at this moment
    probes,     \* per path, how many times the body of is_dataset has run
    decided,    \* per path, the results is_dataset has returned
    scan        \* where the walk stands, and its locals

\* print_line() generators held at the same time
VARIABLES
    objects,    \* per Tree object: _lines and _stats
    generators  \* per generator: its Tree object, where it stands, its
                \* locals, what it has yielded

itertools_vars == <<input, splitter, iterable, data_store, route_out_gen, routed,
                    g_gen, route_in_gen, joined>>

call_vars == <<call, outcome>>

tree_vars == <<fs, datasets, args, pc, tree, lines, stats, stack, dsgen, levels,
               emitted, printed, report, first, listed, content_of, returned>>

cache_vars == <<lru, truth, probes, decided, scan>>

pair_vars == <<objects, generators>>

vars == <<tree_vars, itertools_vars, call_vars, cache_vars, pair_vars>>

\* no walk is watched for its is_dataset() calls
NoCache ==
    /\ lru = <<>>
    /\ truth = {}
    /\ probes = <<>>
    /\ decided = <<>>
    /\ scan = <<>>

\* no generators are held
NoPair ==
    /\ objects = <<>>
    /\ generators = <<>>

\* no pipeline is set up
NoPipeline ==
    /\ input = <<>>
    /\ splitter = <<>>
    /\ iterable = <<>>
    /\ data_store = <<>>
    /\ route_out_gen = "unused"
    /\ routed = <<>>
    /\ g_gen = <<>>
    /\ route_in_gen = <<>>
    /\ joined = <<>>

\* no function is called
NoCall ==
    /\ call = <<>>
    /\ outcome = <<>>

\* no Tree is about to be made
NoCommand ==
    /\ fs = <<>>
    /\ datasets = {}
    /\ args = <<>>
    /\ pc = "unused"
    /\ tree = <<>>
    /\ lines = <<>>
    /\ stats = <<>>
    /\ stack = <<>>
    /\ dsgen = <<>>
    /\ levels = {}
    /\ emitted = <<>>
    /\ printed = <<>>
    /\ report = <<>>
    /\ first = <<>>
    /\ listed = {}
    /\ content_of = <<>>
    /\ returned = <<>>

\* Path.is_file(), Path.is_dir()
IsFile(p) == p \in DOMAIN fs /\ fs[p] = "file"
IsDir(p) == p = RootPath \/ (p \in DOMAIN fs /\ fs[p] = "dir")

\* Path(dir).iterdir(): the entries of a directory
iterdir(dir) == {p \in DOMAIN fs : PathParent(p) = dir}

\* is_dataset(path)
is_dataset(p) == p \in datasets

(***************************************************************************)
(* Tree.__init__                                                           *)
(***************************************************************************)
ZeroStats == [DirectoryNode |-> 0, DatasetNode |-> 0, FileNode |-> 0]

\* whether __init__ raises ValueError
RootNotFound(a) == ~IsDir(a.root)
MaxDepthNegative(a) == a.max_depth # None /\ a.max_depth[1] < 0
\* the check of max_depth left out
InitRaisesForRootOnly(a) == RootNotFound(a)

InitRaises(a) == RootNotFound(a) \/ MaxDepthNegative(a)

\* the fields Tree.__init__ sets, and those DatasetTree.__init__ adds or
\* changes: max_depth=None becomes 0
NewTree(a) ==
    [ class |-> a.class,
      root |-> a.root,
      max_depth |-> IF a.class = "DatasetTree" /\ a.max_depth = None
                    THEN Some(0) ELSE a.max_depth,
      max_dataset_depth |-> a.max_dataset_depth,
      include_files |-> a.include_files,
      include_hidden |-> a.include_hidden,
      full_paths |-> a.full_paths,
      traverse_datasets |-> a.traverse_datasets,
      skip_root |-> a.skip_root ]

\* the depth counted from the top of the file system
get_depth_absolute(self, path) == Len(path)

\* Tree._get_depth
get_depth(self, path) == Len(path) - Len(self.root)

\* the test with > in the place of >=
max_depth_exceeded(self, path) ==
    IF self.max_depth = None THEN FALSE
    ELSE get_depth(self, path) > self.max_depth[1]

\* Tree._max_depth_reached
max_depth_reached(self, path) ==
    IF self.max_depth = None THEN FALSE
    ELSE get_depth(self, path) >= self.max_depth[1]

(***************************************************************************)
(* The nodes.                                                              *)
(***************************************************************************)
\* Dataset.get_superdataset(topmost=False): the nearest dataset above p,
\* None when there is none
RECURSIVE get_superdataset(_)
get_superdataset(p) ==
    IF p = <<>> THEN None
    ELSE IF is_dataset(PathParent(p)) THEN Some(PathParent(p))
    ELSE get_superdataset(PathParent(p))

\* _TreeNode.parents: the paths above the node, from the tree root down
parents(path, depth) ==
    LET k == IF depth < Len(path) THEN depth ELSE Len(path)
    IN  [i \in 1..k |-> SubSeq(path, 1, Len(path) - k + i - 1)]

\* Path.is_relative_to
is_relative_to(p, q) == Len(p) >= Len(q) /\ SubSeq(p, 1, Len(q)) = q

RECURSIVE DepthWalk(_, _, _, _)
\* the loop of DatasetNode.calculate_dataset_depth, at dataset ds with the
\* two counters so far; raised: self.tree_root failed with IndexError
DepthWalk(path, depth, ds, acc) ==
    LET superds == get_superdataset(ds)
    IN  IF superds = None THEN acc
        ELSE IF superds[1] = ds THEN acc
        ELSE IF parents(path, depth) = <<>>
             THEN [acc EXCEPT !.raised = TRUE]
        ELSE DepthWalk(path, depth, superds[1],
                 [ raised |-> FALSE,
                   ds_absolute_depth |-> acc.ds_absolute_depth + 1,
                   ds_depth |-> IF is_relative_to(superds[1], parents(path, depth)[1])
                                THEN acc.ds_depth + 1 ELSE acc.ds_depth ])

\* DatasetNode.calculate_dataset_depth
calculate_dataset_depth(path, depth) ==
    DepthWalk(path, depth, path,
              [raised |-> FALSE, ds_absolute_depth |-> 0, ds_depth |-> 0])

\* Dataset.is_installed(): an uninstalled dataset is an empty directory
is_installed(path) == iterdir(path) # {}

FileNode(path, depth, is_last_child, use_full_paths) ==
    [ kind |-> "FileNode", path |-> path, depth |-> depth,
      is_last_child |-> is_last_child, use_full_paths |-> use_full_paths ]

DirectoryNode(path, depth, is_last_child, use_full_paths) ==
    [ kind |-> "DirectoryNode", path |-> path, depth |-> depth,
      is_last_child |-> is_last_child, use_full_paths |-> use_full_paths ]

DatasetNode(path, depth, is_last_child, use_full_paths) ==
    [ kind |-> "DatasetNode", path |-> path, depth |-> depth,
      is_last_child |-> is_last_child, use_full_paths |-> use_full_paths,
      is_installed |-> is_installed(path),
      ds_depth |-> calculate_dataset_depth(path, depth).ds_depth,
      ds_absolute_depth |-> calculate_dataset_depth(path, depth).ds_absolute_depth ]

\* whether DatasetNode.__init__ raises (IndexError in tree_root)
DatasetNodeRaises(path, depth) == calculate_dataset_depth(path, depth).raised

\* the factory without the test of is_dataset
AlwaysDirectoryNode(path, depth, is_last_child, use_full_paths) ==
    DirectoryNode(path, depth, is_last_child, use_full_paths)

\* DirectoryOrDatasetNode.__new__
DirectoryOrDatasetNode(path, depth, is_last_child, use_full_paths) ==
    IF is_dataset(path)
    THEN DatasetNode(path, depth, is_last_child, use_full_paths)
    ELSE DirectoryNode(path, depth, is_last_child, use_full_paths)

DirectoryOrDatasetNodeRaises(path, depth) ==
    is_dataset(path) /\ DatasetNodeRaises(path, depth)

(***************************************************************************)
(* Tree._generate_tree_nodes, a recursive generator: the stack holds one   *)
(* frame per suspended call, the innermost last.                           *)
(***************************************************************************)
\* the orders iterdir() may list a directory in
ScanOrders == {"ascending", "descending"}

RECURSIVE SortSet(_)
\* the paths of S in ascending order
SortSet(S) ==
    IF S = {} THEN <<>>
    ELSE LET least == CHOOSE x \in S : \A y \in S \ {x} : PathLess(x, y)
         IN  <<least>> \o SortSet(S \ {least})

Reverse(seq) == [i \in 1..Len(seq) |-> seq[Len(seq) + 1 - i]]
Range(seq) == {seq[i] : i \in 1..Len(seq)}

\* list(...iterdir()...): the entries in the order the scan gives them
Listing(S, order) ==
    IF order = "ascending" THEN SortSet(S) ELSE Reverse(SortSet(S))

\* the list left in the order of the scan
unsorted(seq) == seq

\* sorted(list)
sorted(seq) == SortSet(Range(seq))

\* all() in the place of any(): excluded only by every criterion at once
is_excluded_by_all(self, path) ==
    /\ ~self.include_files /\ IsFile(path)
    /\ ~self.include_hidden /\ StartsWithDot(PathName(path))

\* the criterion for hidden entries left out
is_excluded_files_only(self, path) == ~self.include_files /\ IsFile(path)

\* is_excluded(path) of _generate_tree_nodes
is_excluded(self, path) ==
    \/ ~self.include_files /\ IsFile(path)
    \/ ~self.include_hidden /\ StartsWithDot(PathName(path))

\* the selected entries in the order of the scan
ChildrenAsScanned(self, dir_path, order) ==
    Listing({p \in iterdir(dir_path) : ~is_excluded(self, p)}, order)

\* every selected entry taken twice
ChildrenTwice(self, dir_path, order) ==
    sorted(Listing({p \in iterdir(dir_path) : ~is_excluded(self, p)}, order))
      \o sorted(Listing({p \in iterdir(dir_path) : ~is_excluded(self, p)}, order))

\* children = sorted(list(selected_children))
Children(self, dir_path, order) ==
    sorted(Listing({p \in iterdir(dir_path) : ~is_excluded(self, p)}, order))

\* the test of max_depth alone: datasets are walked into
DescendsIntoDatasets(self, dir_path) == ~max_depth_reached(self, dir_path)

\* the condition of line 368 and the test of line 377
Descends(self, dir_path) ==
    /\ ~max_depth_reached(self, dir_path)
    /\ \/ self.traverse_datasets
       \/ ~is_dataset(dir_path)
       \/ get_depth(self, dir_path) = 0

\* whether the call for dir_path yields the directory's own node
YieldsOwnNode(self, dir_path) ==
    ~self.skip_root \/ get_depth(self, dir_path) > 0

\* the frame of a call _generate_tree_nodes(dir_path, is_last_child)
Frame(dir_path, is_last_child) ==
    [ dir_path |-> dir_path, is_last_child |-> is_last_child,
      at |-> "enter", children |-> <<>>, idx |-> 0 ]

Top(stk) == stk[Len(stk)]
Pop(stk) == SubSeq(stk, 1, Len(stk) - 1)
SetTop(stk, f) == [stk EXCEPT ![Len(stk)] = f]

\* is_last_child = (child == children[-1])
IsLastChild(children, child) == child = children[Len(children)]

\* what resuming a generator gives: the frames left, the node yielded (none
\* when the generator is exhausted), whether an exception came out, and
\* the directories whose entries the call has read on the way
Yield(stk, node) ==
    [stack |-> stk, out |-> <<node>>, raised |-> FALSE, listed |-> {}]
Exhausted == [stack |-> <<>>, out |-> <<>>, raised |-> FALSE, listed |-> {}]
Raise == [stack |-> <<>>, out |-> <<>>, raised |-> TRUE, listed |-> {}]

RECURSIVE generate_tree_nodes(_, _, _)
\* next() on the generator of Tree._generate_tree_nodes(self.root)
generate_tree_nodes(self, stk, order) ==
    IF stk = <<>> THEN Exhausted
    ELSE
    LET f == Top(stk)
        depth == get_depth(self, f.dir_path)
    IN
    IF f.at = "enter" THEN
        IF YieldsOwnNode(self, f.dir_path)
        THEN IF DirectoryOrDatasetNodeRaises(f.dir_path, depth) THEN Raise
             ELSE Yield(SetTop(stk, [f EXCEPT !.at = "body"]),
                        DirectoryOrDatasetNode(f.dir_path, depth,
                                               f.is_last_child, FALSE))
        ELSE generate_tree_nodes(self, SetTop(stk, [f EXCEPT !.at = "body"]), order)
    ELSE IF f.at = "body" THEN
        IF Descends(self, f.dir_path)
        THEN LET r == generate_tree_nodes(self,
                          SetTop(stk, [f EXCEPT !.at = "loop",
                                                !.children =
                                                    Children(self, f.dir_path, order),
                                                !.idx = 1]), order)
             IN  [r EXCEPT !.listed = @ \cup {f.dir_path}]
        ELSE generate_tree_nodes(self, Pop(stk), order)
    ELSE
        IF f.idx > Len(f.children)
        THEN generate_tree_nodes(self, Pop(stk), order)
        ELSE
        LET child == f.children[f.idx]
            is_last_child == IsLastChild(f.children, child)
            advanced == SetTop(stk, [f EXCEPT !.idx = f.idx + 1])
        IN  IF IsFile(child)
            THEN Yield(advanced,
                       FileNode(child, get_depth(self, child), is_last_child, FALSE))
            ELSE IF IsDir(child)
            THEN generate_tree_nodes(self,
                     Append(advanced, Frame(child, is_last_child)), order)
            ELSE generate_tree_nodes(self, advanced, order)

(***************************************************************************)
(* The text of a line.                                                     *)
(***************************************************************************)
Slash == 47
TipLast == <<9492, 9472, 9472, 32>>     \* "└── "
TipMid == <<9500, 9472, 9472, 32>>      \* "├── "
IndentBlank == <<32, 32, 32, 32>>       \* "    "
IndentBar == <<124, 32, 32, 32>>        \* "|   "

RECURSIVE PathStr(_)
\* str(path) of an absolute path
PathStr(path) ==
    IF path = <<>> THEN <<>>
    ELSE PathStr(PathParent(path)) \o <<Slash>> \o PathName(path)

\* ansi_colors.color_word on a terminal without colours
color_word(text, color) == text

\* str(n) of a number below 10
DigitStr(n) == <<48 + n>>

\* _TreeNode.__str__
TreeNodeStr(node, color) ==
    LET path == IF node.depth = 0 \/ node.use_full_paths
                THEN PathStr(node.path) ELSE PathName(node.path)
        prefix == IF node.depth > 0
                  THEN (IF node.is_last_child THEN TipLast ELSE TipMid)
                  ELSE <<>>
    IN  prefix \o (IF color = "none" THEN path ELSE color_word(path, color))

\* DirectoryNode.__str__
DirectoryNodeStr(node, color) ==
    IF node.depth > 0 THEN TreeNodeStr(node, color) \o <<Slash>>
    ELSE TreeNodeStr(node, color)

\* DatasetNode.__str__: "  [DS~<n>]" or "  [DS~<n>, not installed]"
DatasetNodeStr(node) ==
    DirectoryNodeStr(node, "magenta")
      \o <<32, 32, 91, 68, 83, 126>> \o DigitStr(node.ds_absolute_depth)
      \o (IF node.is_installed THEN <<>>
          ELSE <<44, 32, 110, 111, 116, 32, 105, 110, 115, 116, 97, 108, 108, 101, 100>>)
      \o <<93>>

\* str(node)
NodeStr(node) ==
    IF node.kind = "FileNode" THEN TreeNodeStr(node, "none")
    ELSE IF node.kind = "DirectoryNode" THEN DirectoryNodeStr(node, "blue")
    ELSE DatasetNodeStr(node)

(***************************************************************************)
(* Tree._yield_lines: one line per node.                                   *)
(***************************************************************************)
\* levels_with_exhausted_subtree after the node
\* every depth added, none discarded
LevelsAlwaysAdded(lv, node) == lv \cup {node.depth}

LevelsAfter(lv, node) ==
    IF node.is_last_child THEN lv \cup {node.depth} ELSE lv \ {node.depth}

\* a bar at every level, whatever the levels
IndentationAllBars(lv, from, depth) ==
    IF from >= depth THEN <<>>
    ELSE [i \in 1..(4 * (depth - from)) |-> IF i % 4 = 1 THEN 124 ELSE 32]

RECURSIVE Indentation(_, _, _)
\* the indentation symbols of levels from..(depth - 1), joined
Indentation(lv, from, depth) ==
    IF from >= depth THEN <<>>
    ELSE (IF from \in lv THEN IndentBlank ELSE IndentBar)
           \o Indentation(lv, from + 1, depth)

\* the line of the node, lv being the levels after it
Line(lv, node) ==
    (IF node.depth > 0 THEN Indentation(lv, 1, node.depth) ELSE <<>>)
      \o NodeStr(node)

(***************************************************************************)
(* increment_node_count and Tree.stats                                     *)
(***************************************************************************)
\* whether the decorator raises ValueError for the node
UnknownNodeType(st, node) == node.kind \notin DOMAIN st

\* the root counted with the rest
StatsAfterCountingRoot(st, node) == [st EXCEPT ![node.kind] = @ + 1]

\* self._stats after the node
StatsAfter(st, node) ==
    IF node.depth > 0 THEN [st EXCEPT ![node.kind] = @ + 1] ELSE st

\* Tree.stats(): the three numbers of the report line, in its order
StatsReport(st) == <<st["DatasetNode"], st["DirectoryNode"], st["FileNode"]>>

(***************************************************************************)
(* DatasetTree: the walk by dataset depth.                                 *)
(***************************************************************************)
\* a Tree(...) made inside DatasetTree, with the defaults of Tree.__init__
\* for what the call does not pass
TreeObject(root, max_depth, include_files, include_hidden, full_paths, traverse_datasets, skip_root) ==
    [ root |-> root, max_depth |-> max_depth,
      include_files |-> include_files, include_hidden |-> include_hidden,
      full_paths |-> full_paths, traverse_datasets |-> traverse_datasets,
      skip_root |-> skip_root ]

\* the limit taken one level too deep
is_max_dataset_depth_passed(self, ds_depth) ==
    ds_depth > self.max_dataset_depth + 1

\* DatasetTree._is_max_dataset_depth_reached, _current_dataset_depth
\* having been set to ds_depth
is_max_dataset_depth_reached(self, ds_depth) == ds_depth > self.max_dataset_depth

\* Path(self.root).glob("**/*"): every entry below the root
GlobAll(root) == {p \in DOMAIN fs : IsBelow(p, root)}

\* the name ".git"
DotGit == <<46, 103, 105, 116>>

\* DatasetTree._find_all_datasets
find_all_datasets(self) ==
    { p \in GlobAll(self.root) :
        /\ IsDir(p)
        /\ PathName(p) # DotGit
        /\ is_dataset(p)
        /\ ~is_max_dataset_depth_reached(self,
              calculate_dataset_depth(p, get_depth(self, p)).ds_depth) }

\* DatasetTree._is_last_ds_child
is_last_ds_child(path, all_datasets) ==
    LET siblings == SortSet({ds \in all_datasets : PathParent(ds) = PathParent(path)})
    IN  IF siblings = <<>> THEN TRUE
        ELSE siblings[Len(siblings)] = path

\* the content walk made with the default traverse_datasets=True
SubTreeThroughDatasets(self, ds) ==
    TreeObject(ds.path, self.max_depth, self.include_files, self.include_hidden,
               FALSE, TRUE, TRUE)

\* ds_tree of _generate_ds_with_parents, and subtree of
\* _generate_dataset_nodes
DsTree(self) ==
    TreeObject(self.root, None, FALSE, TRUE, self.full_paths, TRUE, self.skip_root)
SubTree(self, ds) ==
    TreeObject(ds.path, self.max_depth, self.include_files, self.include_hidden,
               FALSE, FALSE, TRUE)

\* the two generators of a DatasetTree before their first next()
NewDatasetGenerators ==
    [ at |-> "start",             \* _generate_ds_with_parents: where it stands
      ds_tree |-> <<>>,           \* the frames of ds_tree.generate_nodes()
      node |-> <<>>,              \* the dataset node whose parents are yielded
      depth |-> 0,                \* the index of the parents loop
      visited_parents |-> {},     \* self._visited_parents
      all_datasets |-> {},
      outer |-> "loop",           \* _generate_dataset_nodes: where it stands
      ds |-> <<>>,                \* the dataset whose contents are yielded
      subtree |-> <<>> ]          \* the frames of subtree.generate_nodes()

GenYield(g, node) ==
    [gen |-> g, out |-> <<node>>, raised |-> FALSE, content_of |-> <<>>]
GenExhausted(g) ==
    [gen |-> g, out |-> <<>>, raised |-> FALSE, content_of |-> <<>>]
GenRaise(g) ==
    [gen |-> g, out |-> <<>>, raised |-> TRUE, content_of |-> <<>>]

RECURSIVE generate_ds_with_parents(_, _, _)
\* next() on the generator of DatasetTree._generate_ds_with_parents
generate_ds_with_parents(self, g, order) ==
    IF g.at = "start" THEN
        generate_ds_with_parents(self,
            [g EXCEPT !.at = "loop",
                      !.visited_parents = {},
                      !.all_datasets = find_all_datasets(self),
                      !.ds_tree = <<Frame(self.root, TRUE)>>], order)
    ELSE IF g.at = "loop" THEN
        LET r == generate_tree_nodes(DsTree(self), g.ds_tree, order)
        IN  IF r.raised THEN GenRaise([g EXCEPT !.at = "end", !.ds_tree = <<>>])
            ELSE IF r.out = <<>>
            THEN GenExhausted([g EXCEPT !.at = "end", !.ds_tree = <<>>])
            ELSE IF /\ r.out[1].kind = "DatasetNode"
                    /\ ~is_max_dataset_depth_reached(self, r.out[1].ds_depth)
            THEN generate_ds_with_parents(self,
                     [g EXCEPT !.at = "parents", !.ds_tree = r.stack,
                               !.node = r.out, !.depth = 0], order)
            ELSE generate_ds_with_parents(self,
                     [g EXCEPT !.ds_tree = r.stack], order)
    ELSE IF g.at = "parents" THEN
        LET ds == g.node[1]
            ds_parents == parents(ds.path, ds.depth)
        IN  IF g.depth >= Len(ds_parents)
            THEN GenYield([g EXCEPT !.at = "loop", !.node = <<>>,
                                    !.visited_parents = @ \cup {ds.path}],
                          [ds EXCEPT !.is_last_child =
                                        is_last_ds_child(ds.path, g.all_datasets)])
            ELSE
            LET parent == ds_parents[g.depth + 1]
                advanced == [g EXCEPT !.depth = g.depth + 1]
            IN  IF g.depth = 0 /\ self.skip_root
                THEN generate_ds_with_parents(self, advanced, order)
                ELSE IF parent \notin g.visited_parents
                THEN IF DirectoryOrDatasetNodeRaises(parent, g.depth)
                     THEN GenRaise([g EXCEPT !.at = "end", !.ds_tree = <<>>])
                     ELSE GenYield([advanced EXCEPT !.visited_parents = @ \cup {parent}],
                                   DirectoryOrDatasetNode(parent, g.depth,
                                       is_last_ds_child(parent, g.all_datasets),
                                       self.full_paths))
                ELSE generate_ds_with_parents(self, advanced, order)
    ELSE GenExhausted(g)

\* the node of the content walk left at its depth below the dataset
local_depth(sub_node, ds) == sub_node

\* sub_node.depth += ds.depth
offset_depth(sub_node, ds) == [sub_node EXCEPT !.depth = @ + ds.depth]

RECURSIVE generate_dataset_nodes(_, _, _)
\* next() on the generator of DatasetTree._generate_dataset_nodes
generate_dataset_nodes(self, g, order) ==
    IF g.outer = "loop" THEN
        LET r == generate_ds_with_parents(self, g, order)
        IN  IF r.raised THEN GenRaise([r.gen EXCEPT !.outer = "end"])
            ELSE IF r.out = <<>> THEN GenExhausted([r.gen EXCEPT !.outer = "end"])
            ELSE IF r.out[1].kind = "DatasetNode"
            THEN generate_dataset_nodes(self,
                     [r.gen EXCEPT !.outer = "subtree", !.ds = r.out,
                                   !.subtree = <<Frame(r.out[1].path, TRUE)>>], order)
            ELSE generate_dataset_nodes(self, r.gen, order)
    ELSE IF g.outer = "subtree" THEN
        LET ds == g.ds[1]
            r == generate_tree_nodes(SubTree(self, ds), g.subtree, order)
        IN  IF r.raised THEN GenRaise([g EXCEPT !.outer = "end", !.subtree = <<>>])
            ELSE IF r.out = <<>>
            THEN generate_dataset_nodes(self,
                     [g EXCEPT !.outer = "loop", !.ds = <<>>, !.subtree = <<>>], order)
            ELSE IF r.out[1].kind = "DatasetNode"
            THEN generate_dataset_nodes(self,
                     [g EXCEPT !.outer = "yield from", !.subtree = r.stack,
                               !.visited_parents = @ \cup
                                   Range(parents(r.out[1].path, r.out[1].depth))], order)
            ELSE [GenYield([g EXCEPT !.subtree = r.stack],
                           offset_depth(r.out[1], ds))
                    EXCEPT !.content_of = <<ds>>]
    ELSE IF g.outer = "yield from" THEN
        LET r == generate_ds_with_parents(self, g, order)
        IN  IF r.raised THEN GenRaise([r.gen EXCEPT !.outer = "end"])
            ELSE IF r.out = <<>>
            THEN generate_dataset_nodes(self, [r.gen EXCEPT !.outer = "subtree"], order)
            ELSE GenYield(r.gen, r.out[1])
    ELSE GenExhausted(g)

(***************************************************************************)
(* The run of the command.                                                 *)
(***************************************************************************)
NoTree == <<>>

\* the command is about to be run on one of the trees F with arguments
\* from A
InitWith(F, A) ==
    /\ fs \in F
    /\ datasets \in DatasetChoices(fs)
    /\ args \in A
    /\ pc = "init"
    /\ tree = NoTree
    /\ lines = <<>>
    /\ stats = <<>>
    /\ stack = <<>>
    /\ dsgen = NewDatasetGenerators
    /\ levels = {}
    /\ emitted = <<>>
    /\ printed = <<>>
    /\ report = <<>>
    /\ first = <<>>
    /\ listed = {}
    /\ content_of = <<>>
    /\ returned = <<>>
    /\ NoPipeline
    /\ NoCall
    /\ NoCache
    /\ NoPair

\* a Tree on any tree of up to MaxEntries entries
Init == InitWith(FileSystems, TreeArgs({FALSE}) \cup EdgeArgs)

\* a Tree or a DatasetTree with every argument on the smaller trees
InitModes == InitWith(SmallFileSystems, TreeArgs(BOOLEAN) \cup DatasetTreeArgs)

\* a DatasetTree on the larger trees, with every argument but full_paths
InitDatasets ==
    InitWith(FileSystems, {a \in DatasetTreeArgs : ~a.full_paths})

\* tree = Tree(path, ...) or tree = DatasetTree(path, ...)
Construct ==
    /\ pc = "init"
    /\ IF InitRaises(args)
       THEN /\ pc' = "error"
            /\ UNCHANGED <<tree, lines, stats>>
       ELSE /\ pc' = "ready"
            /\ tree' = NewTree(args)
            /\ lines' = <<>>
            /\ stats' = ZeroStats
    /\ UNCHANGED <<itertools_vars, call_vars, cache_vars, pair_vars>>
    /\ UNCHANGED <<fs, datasets, args, stack, dsgen, levels, emitted, printed, report,
                   first, listed, content_of, returned>>

\* the frames of generate_nodes() before its first next()
NewStack(self) ==
    IF self.class = "Tree" THEN <<Frame(self.root, TRUE)>> ELSE <<>>

\* tree.print_line(): the generators are created, nothing runs yet
PrintLine ==
    /\ pc = "ready"
    /\ pc' = "running"
    /\ stack' = NewStack(tree)
    /\ dsgen' = NewDatasetGenerators
    /\ levels' = {}
    /\ UNCHANGED <<itertools_vars, call_vars, cache_vars, pair_vars>>
    /\ UNCHANGED <<fs, datasets, args, tree, lines, stats, emitted, printed, report,
                   first, listed, content_of, returned>>

\* next() on tree.generate_nodes() without its decorator
generate_nodes(self, stk, g, order) ==
    IF self.class = "Tree"
    THEN CHOOSE n \in
            {[stack |-> r.stack, gen |-> g, out |-> r.out, raised |-> r.raised,
              listed |-> r.listed, content_of |-> <<>>] :
                r \in {generate_tree_nodes(self, stk, order)}} : TRUE
    ELSE CHOOSE n \in
            {[stack |-> stk, gen |-> r.gen, out |-> r.out, raised |-> r.raised,
              listed |-> {}, content_of |-> r.content_of] :
                r \in {generate_dataset_nodes(self, g, order)}} : TRUE

\* print_line without its append
cache_nothing(ls, line) == ls

\* self._lines.append(line) of print_line
cache_line(ls, line) == Append(ls, line)

\* next() on the first branch of print_line
WalkStep ==
    \E order \in ScanOrders :
    \E r \in {generate_nodes(tree, stack, dsgen, order)} :
       /\ listed' = listed \cup r.listed
       /\ IF r.raised
          THEN /\ pc' = "crashed"
               /\ stack' = <<>>
               /\ dsgen' = r.gen
               /\ UNCHANGED <<lines, stats, levels, emitted, printed, content_of>>
          ELSE IF r.out = <<>>
          THEN /\ pc' = "done"
               /\ stack' = <<>>
               /\ dsgen' = r.gen
               /\ UNCHANGED <<lines, stats, levels, emitted, printed, content_of>>
          ELSE \E node \in {r.out[1]} :
               \E lv \in {LevelsAfter(levels, node)} :
               \E line \in {Line(lv, node)} :
                  /\ pc' = "running"
                  /\ stack' = r.stack
                  /\ dsgen' = r.gen
                  /\ stats' = StatsAfter(stats, node)
                  /\ emitted' = Append(emitted, node)
                  /\ content_of' = Append(content_of, r.content_of)
                  /\ levels' = lv
                  /\ lines' = cache_line(lines, line)
                  /\ printed' = Append(printed, line)

\* one turn of "for line in tree.print_line(): print(line)"
NextLine ==
    /\ pc = "running"
    /\ WalkStep
    /\ UNCHANGED <<itertools_vars, call_vars, cache_vars, pair_vars>>
    /\ UNCHANGED <<fs, datasets, args, tree, report, first, returned>>

\* print("\n" + tree.stats() + "\n")
Stats ==
    /\ pc = "done"
    /\ pc' = "reported"
    /\ report' = StatsReport(stats)
    /\ UNCHANGED <<itertools_vars, call_vars, cache_vars, pair_vars>>
    /\ UNCHANGED <<fs, datasets, args, tree, lines, stats, stack, dsgen, levels,
                   emitted, printed, first, listed, content_of, returned>>

\* the command is run a second time on the unchanged tree with the same
\* arguments: a new Tree object, new generators
Rerun ==
    /\ pc = "reported"
    /\ first = <<>>
    /\ first' = <<[printed |-> printed, report |-> report]>>
    /\ pc' = "init"
    /\ tree' = NoTree
    /\ lines' = <<>>
    /\ stats' = <<>>
    /\ stack' = <<>>
    /\ dsgen' = NewDatasetGenerators
    /\ levels' = {}
    /\ emitted' = <<>>
    /\ printed' = <<>>
    /\ report' = <<>>
    /\ listed' = {}
    /\ content_of' = <<>>
    /\ UNCHANGED <<itertools_vars, call_vars, cache_vars, pair_vars>>
    /\ UNCHANGED <<fs, datasets, args, returned>>

Next == Construct \/ PrintLine \/ NextLine \/ Stats

Spec == Init /\ [][Next]_vars

\* both classes, every argument
SpecModes == InitModes /\ [][Next]_vars

\* dataset mode alone
SpecDatasets == InitDatasets /\ [][Next]_vars

\* the command run twice
NextRerun == Next \/ Rerun

SpecRerun == InitModes /\ [][NextRerun]_vars

(***************************************************************************)
(* The Tree object used as a library: print_line(), next() on the          *)
(* generator it returned, to_string() and build(), in any sequence, on one *)
(* Tree object.  One print_line generator is held at a time; a new call    *)
(* lets the earlier generator go, wherever it stood.                       *)
(***************************************************************************)
Newline == 10

RECURSIVE Join(_, _)
\* sep.join(ls)
Join(sep, ls) ==
    IF ls = <<>> THEN <<>>
    ELSE IF Len(ls) = 1 THEN ls[1]
    ELSE ls[1] \o sep \o Join(sep, Tail(ls))

RECURSIVE Drain(_, _, _, _, _, _, _)
\* list(self.print_line()) on the first branch of print_line, after a
\* next() on generate_nodes gave r
DrainAfter(self, r, lv, ls, st, order) ==
    IF r.raised THEN [lines |-> ls, stats |-> st, raised |-> TRUE]
    ELSE IF r.out = <<>> THEN [lines |-> ls, stats |-> st, raised |-> FALSE]
    ELSE LET node == r.out[1]
             nlv == LevelsAfter(lv, node)
         IN  Drain(self, r.stack, r.gen, nlv,
                   cache_line(ls, Line(nlv, node)), StatsAfter(st, node), order)

\* list(self.print_line()) on the first branch of print_line: _lines and
\* _stats once the generator is exhausted or has raised
Drain(self, stk, g, lv, ls, st, order) ==
    CHOOSE d \in {DrainAfter(self, r, lv, ls, st, order) :
                     r \in {generate_nodes(self, stk, g, order)}} : TRUE

\* Tree.to_string(): _lines and _stats after the call, and what it returned
to_string(self, ls, st, order) ==
    IF ls = <<>>
    THEN CHOOSE t \in
            {[lines |-> r.lines, stats |-> r.stats, raised |-> r.raised,
              text |-> IF r.raised THEN <<>> ELSE Join(<<Newline>>, r.lines)] :
                r \in {Drain(self, NewStack(self), NewDatasetGenerators, {}, ls, st,
                             order)}} : TRUE
    ELSE [lines |-> ls, stats |-> st, raised |-> FALSE,
          text |-> Join(<<Newline>>, ls)]

\* a Tree object exists
Constructed == pc \notin {"init", "error"}

\* gen = tree.print_line(): a generator object; nothing of its body has
\* run. The frames and the levels are those a walk would start with
CallPrintLine ==
    /\ Constructed
    /\ pc' = "created"
    /\ stack' = NewStack(tree)
    /\ dsgen' = NewDatasetGenerators
    /\ levels' = {}
    /\ emitted' = <<>>
    /\ printed' = <<>>
    /\ content_of' = <<>>
    /\ listed' = {}
    /\ UNCHANGED <<itertools_vars, call_vars, cache_vars, pair_vars>>
    /\ UNCHANGED <<fs, datasets, args, tree, lines, stats, report, first, returned>>

\* next() on the second branch of print_line: each cached line, and a
\* newline after each
ReplayStep ==
    /\ IF Len(printed) >= 2 * Len(lines)
       THEN /\ pc' = "done"
            /\ printed' = printed
       ELSE /\ pc' = "replaying"
            /\ printed' = Append(printed,
                               IF Len(printed) % 2 = 0
                               THEN lines[(Len(printed) \div 2) + 1]
                               ELSE <<Newline>>)
    /\ UNCHANGED <<lines, stats, stack, dsgen, levels, emitted, listed, content_of>>

\* next(gen): the first next() tests self._lines and takes its branch
Resume ==
    /\ \/ pc = "created" /\ lines = <<>> /\ WalkStep
       \/ pc = "created" /\ lines # <<>> /\ ReplayStep
       \/ pc = "running" /\ WalkStep
       \/ pc = "replaying" /\ ReplayStep
    /\ UNCHANGED <<itertools_vars, call_vars, cache_vars, pair_vars>>
    /\ UNCHANGED <<fs, datasets, args, tree, report, first, returned>>

\* text = tree.to_string()
CallToString ==
    /\ Constructed
    /\ \E order \in ScanOrders :
       \E r \in {to_string(tree, lines, stats, order)} :
          /\ lines' = r.lines
          /\ stats' = r.stats
          /\ returned' = <<[raised |-> r.raised, text |-> r.text]>>
    /\ UNCHANGED <<itertools_vars, call_vars, cache_vars, pair_vars>>
    /\ UNCHANGED <<fs, datasets, args, pc, tree, stack, dsgen, levels, emitted,
                   printed, report, first, listed, content_of>>

\* tree.build()
CallBuild ==
    /\ Constructed
    /\ \E order \in ScanOrders :
       \E r \in {to_string(tree, lines, stats, order)} :
          /\ lines' = r.lines
          /\ stats' = r.stats
    /\ UNCHANGED <<itertools_vars, call_vars, cache_vars, pair_vars>>
    /\ UNCHANGED <<fs, datasets, args, pc, tree, stack, dsgen, levels, emitted,
                   printed, report, first, listed, content_of, returned>>

NextLibrary == Construct \/ CallPrintLine \/ Resume \/ CallToString \/ CallBuild

\* both classes on the smaller trees, hidden entries shown and names printed
InitLibrary ==
    InitWith(SmallFileSystems,
             {a \in TreeArgs({FALSE}) \cup DatasetTreeArgs :
                 a.include_hidden /\ a.traverse_datasets /\ ~a.full_paths})

\* the object used as a library
SpecLibrary == InitLibrary /\ [][NextLibrary]_vars

\* gen = tree.print_line() once more, after the first generator has been
\* consumed to its end; what that one yielded, and the counters, are kept
\* for comparison
PrintLineAgain ==
    /\ pc = "done"
    /\ first = <<>>
    /\ first' = <<[printed |-> printed, stats |-> stats]>>
    /\ pc' = "created"
    /\ stack' = NewStack(tree)
    /\ dsgen' = NewDatasetGenerators
    /\ levels' = {}
    /\ emitted' = <<>>
    /\ printed' = <<>>
    /\ content_of' = <<>>
    /\ listed' = {}
    /\ UNCHANGED <<itertools_vars, call_vars, cache_vars, pair_vars>>
    /\ UNCHANGED <<fs, datasets, args, tree, lines, stats, report, returned>>

\* print_line() consumed to its end, twice
NextReplay == Construct \/ PrintLine \/ NextLine \/ PrintLineAgain \/ Resume

SpecReplay == InitLibrary /\ [][NextReplay]_vars

(***************************************************************************)
(* Python values, as far as the functions below tell them apart            *)
(***************************************************************************)
PyNone == [type |-> "NoneType"]
PyInt(n) == [type |-> "int", value |-> n]
PyList(xs) == [type |-> "list", items |-> xs]
PyTuple(xs) == [type |-> "tuple", items |-> xs]
\* a dict with the keys ks, in insertion order
PyDict(ks) == [type |-> "dict", items |-> ks]

\* dont_process = object()
dont_process == [type |-> "object", id |-> "dont_process"]

(***************************************************************************)
(* datalad_next.itertools.reroute                                          *)
(***************************************************************************)
\* the longest input iterable
MaxInput == 4

\* the elements of the input iterables
MaxElement == 2

\* how many elements the generator between route_out and route_in may take
\* before it yields the result of the oldest one
MaxHeld == 2

Elements == {PyInt(n) : n \in 0..MaxElement}

RECURSIVE SeqsUpTo(_, _)
\* the sequences over S of length up to n
SeqsUpTo(S, n) ==
    IF n = 0 THEN {<<>>}
    ELSE LET shorter == SeqsUpTo(S, n - 1)
         IN  shorter \cup {Append(q, x) : q \in {t \in shorter : Len(t) = n - 1}, x \in S}

\* splitters in the manner of the docstring's: the element in a list is
\* stored, and the element is passed on unless it is one of skip
Splitters ==
    {[x \in Elements |-> <<IF x \in skip THEN dont_process ELSE x, PyList(<<x>>)>>] :
        skip \in SUBSET Elements}

\* a joiner that keeps both of its arguments
joiner(processed_data, stored_data) == <<processed_data, stored_data>>

\* what the generator between route_out and route_in yields for an element
\* it received
Processed(x) == [type |-> "result", of |-> x]

RECURSIVE route_out_dropping(_, _, _)
\* route_out that stores nothing for the elements it routes around
route_out_dropping(its, store, split) ==
    IF its = <<>> THEN [iterable |-> its, data_store |-> store, out |-> <<>>]
    ELSE IF split[Head(its)][1] = dont_process
    THEN route_out_dropping(Tail(its), store, split)
    ELSE [iterable |-> Tail(its),
          data_store |-> Append(store, <<TRUE, split[Head(its)][2]>>),
          out |-> <<split[Head(its)][1]>>]

\* route_out that yields whatever the splitter returned first
route_out_yielding_all(its, store, split) ==
    IF its = <<>> THEN [iterable |-> its, data_store |-> store, out |-> <<>>]
    ELSE [iterable |-> Tail(its),
          data_store |-> Append(store, <<split[Head(its)][1] # dont_process,
                                         split[Head(its)][2]>>),
          out |-> <<split[Head(its)][1]>>]

RECURSIVE route_out(_, _, _)
\* next() on route_out: the input and the store afterwards, and what it
\* yielded (nothing when the input ran out)
route_out(its, store, split) ==
    IF its = <<>> THEN [iterable |-> its, data_store |-> store, out |-> <<>>]
    ELSE LET data_to_process == split[Head(its)][1]
             data_to_store == split[Head(its)][2]
         IN  IF data_to_process = dont_process
             THEN route_out(Tail(its), Append(store, <<FALSE, data_to_store>>), split)
             ELSE [iterable |-> Tail(its),
                   data_store |-> Append(store, <<TRUE, data_to_store>>),
                   out |-> <<data_to_process>>]

\* the generators of a pipeline before the first next()
NewPipeline(its, split) ==
    [iterable |-> its, data_store |-> <<>>, route_out_gen |-> "suspended",
     routed |-> <<>>, g_gen |-> [held |-> <<>>, state |-> "suspended"],
     route_in_gen |-> [at |-> "start", element |-> <<>>, index |-> 0],
     joined |-> <<>>]

\* next() on route_out by the generator that consumes it, which keeps what
\* it gets
Pull(p) ==
    IF p.route_out_gen = "exhausted" THEN p
    ELSE LET r == route_out(p.iterable, p.data_store, splitter)
         IN  [p EXCEPT !.iterable = r.iterable,
                       !.data_store = r.data_store,
                       !.route_out_gen = IF r.out = <<>> THEN "exhausted" ELSE "suspended",
                       !.routed = @ \o r.out,
                       !.g_gen.held = @ \o r.out]

RECURSIVE PullTimes(_, _)
PullTimes(p, n) == IF n = 0 THEN p ELSE PullTimes(Pull(p), n - 1)

\* next() on a generator that yields one result for each element it
\* receives, in order, and takes up to n elements before it yields:
\* the pipeline afterwards, and the result (none at StopIteration)
g_next(p, n) ==
    IF p.g_gen.state = "exhausted" THEN [p |-> p, out |-> <<>>]
    ELSE LET room == MaxHeld - Len(p.g_gen.held)
             times == IF p.g_gen.held = <<>> /\ n = 0 THEN 1
                      ELSE IF n > room THEN room ELSE n
             q == PullTimes(p, times)
         IN  IF q.g_gen.held = <<>>
             THEN [p |-> [q EXCEPT !.g_gen.state = "exhausted"], out |-> <<>>]
             ELSE [p |-> [q EXCEPT !.g_gen.held = Tail(@)],
                   out |-> <<Processed(Head(q.g_gen.held))>>]

\* route_in at "process_info = data_store.pop(0)", with element in hand
route_in_pop(p, element) ==
    IF p.data_store = <<>>
    THEN [p EXCEPT !.route_in_gen.at = "failed"]
    ELSE LET process_info == Head(p.data_store)
             q == [p EXCEPT !.data_store = Tail(@)]
         IN  IF ~process_info[1]
             THEN [q EXCEPT !.joined = Append(@, joiner(dont_process, process_info[2])),
                            !.route_in_gen = [at |-> "skipped", element |-> <<element>>,
                                              index |-> 0]]
             ELSE [q EXCEPT !.joined = Append(@, joiner(element, process_info[2])),
                            !.route_in_gen = [at |-> "joined", element |-> <<>>,
                                              index |-> 0]]

\* route_in in "for process_info in data_store", about to take entry i
route_in_rest(p, i) ==
    IF i > Len(p.data_store)
    THEN [p EXCEPT !.data_store = <<>>,
                   !.route_in_gen = [at |-> "done", element |-> <<>>, index |-> 0]]
    ELSE IF p.data_store[i][1]
    THEN [p EXCEPT !.route_in_gen.at = "failed"]
    ELSE [p EXCEPT !.joined = Append(@, joiner(dont_process, p.data_store[i][2])),
                   !.route_in_gen = [at |-> "rest", element |-> <<>>, index |-> i]]

\* next() on route_in, the generator it consumes taking up to n elements
route_in(p, n) ==
    IF p.route_in_gen.at \in {"start", "joined"}
    THEN LET r == g_next(p, n)
         IN  IF r.out = <<>> THEN route_in_rest(r.p, 1)
             ELSE route_in_pop(r.p, r.out[1])
    ELSE IF p.route_in_gen.at = "skipped"
    THEN route_in_pop(p, p.route_in_gen.element[1])
    ELSE route_in_rest(p, p.route_in_gen.index + 1)

\* the generators as they stand
Pipeline ==
    [iterable |-> iterable, data_store |-> data_store,
     route_out_gen |-> route_out_gen, routed |-> routed, g_gen |-> g_gen,
     route_in_gen |-> route_in_gen, joined |-> joined]

SetPipeline(p) ==
    /\ iterable' = p.iterable
    /\ data_store' = p.data_store
    /\ route_out_gen' = p.route_out_gen
    /\ routed' = p.routed
    /\ g_gen' = p.g_gen
    /\ route_in_gen' = p.route_in_gen
    /\ joined' = p.joined

\* route_in(g(route_out(input, store, splitter)), store, joiner) is set up
InitPipeline ==
    /\ NoCommand
    /\ NoCall
    /\ NoCache
    /\ NoPair
    /\ input \in SeqsUpTo(Elements, MaxInput)
    /\ splitter \in Splitters
    /\ \E p \in {NewPipeline(input, splitter)} :
          /\ iterable = p.iterable
          /\ data_store = p.data_store
          /\ route_out_gen = p.route_out_gen
          /\ routed = p.routed
          /\ g_gen = p.g_gen
          /\ route_in_gen = p.route_in_gen
          /\ joined = p.joined

\* route_out(input, store, splitter) is set up, its consumer takes what it
\* yields and nothing reads the store
InitRouteOut ==
    /\ NoCommand
    /\ NoCall
    /\ NoCache
    /\ NoPair
    /\ input \in SeqsUpTo(Elements, MaxInput)
    /\ splitter \in Splitters
    /\ iterable = input
    /\ data_store = <<>>
    /\ route_out_gen = "suspended"
    /\ routed = <<>>
    /\ g_gen = <<>>
    /\ route_in_gen = <<>>
    /\ joined = <<>>

\* the consumer of the pipeline calls next() on route_in
NextRouteIn ==
    /\ route_in_gen \notin {<<>>}
    /\ route_in_gen.at \notin {"done", "failed"}
    /\ \E n \in 0..MaxHeld : SetPipeline(route_in(Pipeline, n))
    /\ UNCHANGED <<input, splitter>>
    /\ UNCHANGED <<tree_vars, call_vars, cache_vars, pair_vars>>

\* the consumer of route_out calls next() on it
NextRouteOut ==
    /\ route_out_gen = "suspended"
    /\ \E r \in {route_out(iterable, data_store, splitter)} :
          /\ iterable' = r.iterable
          /\ data_store' = r.data_store
          /\ routed' = routed \o r.out
          /\ route_out_gen' = IF r.out = <<>> THEN "exhausted" ELSE "suspended"
    /\ UNCHANGED <<input, splitter, g_gen, route_in_gen, joined>>
    /\ UNCHANGED <<tree_vars, call_vars, cache_vars, pair_vars>>

SpecPipeline == InitPipeline /\ [][NextRouteIn]_vars

SpecRouteOut == InitRouteOut /\ [][NextRouteOut]_vars

\* the longest list or tuple passed to a function
MaxItems == 2

Ints == {PyInt(n) : n \in 0..MaxElement}

\* lists of integers
IntLists == {PyList(xs) : xs \in SeqsUpTo(Ints, MaxItems)}

\* tuples of integers
IntTuples == {PyTuple(xs) : xs \in SeqsUpTo(Ints, MaxItems)}

\* join_with_list(processed_data, stored_data): the list it returns
join_with_list(processed_data, stored_data) ==
    IF processed_data = dont_process
    THEN PyList(<<PyNone>> \o stored_data.items)
    ELSE IF processed_data.type # "list"
    THEN PyList(<<processed_data>> \o stored_data.items)
    ELSE PyList(processed_data.items \o stored_data.items)

\* join_with_list is about to be called with a stored list and with
\* dont_process, None, an integer, a tuple or a list
InitJoin ==
    /\ NoCommand
    /\ NoPipeline
    /\ NoCache
    /\ NoPair
    /\ call \in [func : {"join_with_list"},
                 processed_data : {dont_process, PyNone} \cup Ints \cup IntTuples
                                    \cup IntLists,
                 stored_data : IntLists]
    /\ outcome = <<>>

\* result = join_with_list(processed_data, stored_data)
CallJoinWithList ==
    /\ call # <<>> /\ call.func = "join_with_list"
    /\ outcome = <<>>
    /\ outcome' = <<join_with_list(call.processed_data, call.stored_data)>>
    /\ UNCHANGED call
    /\ UNCHANGED <<tree_vars, itertools_vars, cache_vars, pair_vars>>

SpecJoin == InitJoin /\ [][CallJoinWithList]_vars

(***************************************************************************)
(* datalad_next.utils.deprecate                                            *)
(***************************************************************************)
\* class _NoDeprecatedValue
NoDeprecatedValue == [type |-> "type", id |-> "_NoDeprecatedValue"]

\* hash(v) does not raise TypeError
RECURSIVE Hashable(_)
Hashable(v) ==
    IF v.type \in {"list", "dict"} THEN FALSE
    ELSE IF v.type = "tuple"
    THEN \A i \in 1..Len(v.items) : Hashable(v.items[i])
    ELSE TRUE

\* values without items
Scalars == {PyNone} \cup {PyInt(n) : n \in 0..1}

\* what a list or a tuple may hold: a scalar or a list
Items == Scalars \cup {PyList(<<>>)}

\* the values a keyword argument is given
Values ==
    Scalars
    \cup {PyList(xs) : xs \in SeqsUpTo(Items, MaxItems)}
    \cup {PyTuple(xs) : xs \in SeqsUpTo(Items, MaxItems)}
    \cup {PyDict(ks) : ks \in SeqsUpTo(Scalars, MaxItems)}

\* the name of the keyword argument that is deprecated, and another one
KwargNames == {"mode", "other"}

\* deprecated(msg, version, kwarg, kwarg_values): kwarg_values after
\* "normalize to a set()"
normalize(kwarg_values) ==
    IF kwarg_values = NoDeprecatedValue THEN {}
    ELSE {kwarg_values.items[i] : i \in 1..Len(kwarg_values.items)}

RECURSIVE intersection(_, _, _)
\* values.intersection(items), found being what it holds so far: the items
\* are hashed one after the other until every value has been found.
\* [raised |-> TRUE] is TypeError("unhashable type")
intersection(values, items, found) ==
    IF items = <<>> THEN [raised |-> FALSE, result |-> found]
    ELSE IF ~Hashable(Head(items)) THEN [raised |-> TRUE, result |-> {}]
    ELSE IF Head(items) \in values
    THEN IF found \cup {Head(items)} = values
         THEN [raised |-> FALSE, result |-> values]
         ELSE intersection(values, Tail(items), found \cup {Head(items)})
    ELSE intersection(values, Tail(items), found)

\* the wrapped function: it returns something made of its arguments
func(args_, kwargs) == [type |-> "result", args |-> args_, kwargs |-> kwargs]

\* the call goes through to the wrapped function
Through(warned, c) ==
    [warnings |-> warned, raised |-> FALSE, calls |-> <<c>>,
     returned |-> <<func(c.args, c.kwargs)>>]

\* an exception leaves func_with_deprecation_warning before the wrapped
\* function is called
TypeError == [warnings |-> 0, raised |-> TRUE, calls |-> <<>>, returned |-> <<>>]

\* func_with_deprecation_warning(*args, **kwargs) of
\* deprecated(msg, version, kwarg, kwarg_values)(func)
func_with_deprecation_warning(kwarg, kwarg_values, c) ==
    IF kwarg # None /\ kwarg[1] \notin DOMAIN c.kwargs
    THEN Through(0, c)
    ELSE LET values == normalize(kwarg_values)
             val == IF kwarg # None THEN c.kwargs[kwarg[1]] ELSE NoDeprecatedValue
         IN  IF kwarg = None \/ values = {} THEN Through(1, c)
             ELSE IF val.type \notin {"list", "dict"} /\ ~Hashable(val) THEN TypeError
             ELSE IF val.type \notin {"list", "dict"} /\ val \in values THEN Through(1, c)
             ELSE IF val.type \notin {"tuple", "list", "dict"} THEN Through(0, c)
             ELSE LET common == intersection(values, val.items, {})
                  IN  IF common.raised THEN TypeError
                      ELSE IF common.result # {} THEN Through(1, c)
                      ELSE Through(0, c)

\* keyword arguments: the deprecated one, the other one, both or neither
Kwargs ==
    UNION {[names -> Values] : names \in SUBSET {"mode"}}
    \cup {[n \in KwargNames |-> IF n = "mode" THEN v ELSE PyInt(0)] : v \in Values}
    \cup {[n \in {"other"} |-> PyInt(0)]}

\* a function decorated with deprecated(...) is about to be called
InitDeprecated ==
    /\ NoCommand
    /\ NoPipeline
    /\ NoCache
    /\ NoPair
    /\ call \in [func : {"func_with_deprecation_warning"},
                 kwarg : {None, Some("mode")},
                 kwarg_values : {NoDeprecatedValue}
                                  \cup {PyTuple(xs) : xs \in SeqsUpTo(Scalars, MaxItems)},
                 args : {<<>>, <<PyInt(1)>>},
                 kwargs : Kwargs]
    /\ outcome = <<>>

\* the decorated function is called
CallDeprecated ==
    /\ call # <<>> /\ call.func = "func_with_deprecation_warning"
    /\ outcome = <<>>
    /\ outcome' = <<func_with_deprecation_warning(call.kwarg, call.kwarg_values,
                      [args |-> call.args, kwargs |-> call.kwargs])>>
    /\ UNCHANGED call
    /\ UNCHANGED <<tree_vars, itertools_vars, cache_vars, pair_vars>>

SpecDeprecated == InitDeprecated /\ [][CallDeprecated]_vars

(***************************************************************************)
(* is_dataset() behind @lru_cache, followed over one walk of a             *)
(* DatasetTree(root), max_depth and max_dataset_depth left at 0, on a root *)
(* that is no dataset and holds empty directories only.  The walk is       *)
(* followed from one is_dataset() call to the next; between two calls      *)
(* another process may turn a directory into a dataset, or back.           *)
(***************************************************************************)
\* maxsize of functools.lru_cache when the decorator is given no argument
LruMaxsize == 128

\* the directories in the root, and the changes made by other processes
MaxDirs == 128
MaxChanges == 1

\* the k-th directory of the root, by name
FlatDir(k) == RootPath \o <<<<255 + k>>>>

FlatPaths(n) == {RootPath} \cup {FlatDir(k) : k \in 1..n}

\* the directory another process may change
Watched == FlatDir(1)

\* the body of is_dataset: what the file system says at this moment
is_dataset_uncached(path) == path \in truth

\* where key is in the cache, 0 when it is not there
CachePosition(c, key) ==
    IF \E i \in DOMAIN c : c[i].key = key
    THEN CHOOSE i \in DOMAIN c : c[i].key = key
    ELSE 0

\* a cache that keeps every result
lru_cache_unbounded(c, key, value) ==
    LET i == CachePosition(c, key)
    IN  IF i > 0
        THEN [hit |-> TRUE, result |-> c[i].result, cache |-> c]
        ELSE [hit |-> FALSE, result |-> value,
              cache |-> Append(c, [key |-> key, result |-> value])]

\* a call of a function decorated with @lru_cache: the result, and the
\* cache after the call; value is what the function returns if it is run
lru_cache(c, key, value) ==
    LET i == CachePosition(c, key)
    IN  IF i > 0
        THEN [hit |-> TRUE, result |-> c[i].result,
              cache |-> Append(SubSeq(c, 1, i - 1) \o SubSeq(c, i + 1, Len(c)),
                               c[i])]
        ELSE [hit |-> FALSE, result |-> value,
              cache |-> Append(IF Len(c) >= LruMaxsize THEN Tail(c) ELSE c,
                               [key |-> key, result |-> value])]

\* is_dataset(path) is called: r is what the cache made of it
Asked(path, r) ==
    /\ lru' = r.cache
    /\ probes' = IF r.hit THEN probes ELSE [probes EXCEPT ![path] = @ + 1]
    /\ decided' = [decided EXCEPT ![path] = @ \cup {r.result}]

\* a DatasetTree on a root with 1..MaxDirs directories, of which all, none
\* or the first are datasets, on a file system that lists them in either
\* order; the cache is empty, as in a new process
InitCache ==
    /\ \E n \in {1, 2, MaxDirs - 1, MaxDirs} :
          /\ \E order \in ScanOrders :
                scan = [dirs |-> n, glob |-> order, at |-> "find_all_datasets",
                        i |-> 1, visited_parents |-> {}, all_datasets |-> {},
                        changes |-> 0]
          /\ truth \in {{}, {Watched}, {FlatDir(k) : k \in 1..n}}
          /\ probes = [p \in FlatPaths(n) |-> 0]
          /\ decided = [p \in FlatPaths(n) |-> {}]
    /\ lru = <<>>
    /\ NoCommand
    /\ NoPipeline
    /\ NoCall
    /\ NoPair

\* the i-th path of Path(self.root).glob("**/*"), which lists a directory
\* in the order of the file system
GlobItem(sc) ==
    IF sc.glob = "ascending" THEN FlatDir(sc.i) ELSE FlatDir(sc.dirs + 1 - sc.i)

\* _find_all_datasets: the generator expression takes the next path of
\* the glob and calls is_dataset(p); a dataset is added to the set
FindAllDatasets ==
    /\ scan # <<>>
    /\ scan.at = "find_all_datasets"
    /\ \E path \in {GlobItem(scan)} :
       \E r \in {lru_cache(lru, path, is_dataset_uncached(path))} :
          /\ Asked(path, r)
          /\ scan' = [scan EXCEPT
                 !.all_datasets = IF r.result THEN @ \cup {path} ELSE @,
                 !.i = IF scan.i = scan.dirs THEN 0 ELSE @ + 1,
                 !.at = IF scan.i = scan.dirs THEN "ds_tree" ELSE @]
    /\ UNCHANGED truth
    /\ UNCHANGED <<tree_vars, itertools_vars, call_vars, pair_vars>>

\* the walk of ds_tree after the directory i: on to the next one
AfterDirectory(sc) ==
    [sc EXCEPT !.at = IF sc.i = sc.dirs THEN "done" ELSE "ds_tree",
               !.i = IF sc.i = sc.dirs THEN @ ELSE @ + 1]

\* ds_tree.generate_nodes() makes its next node: DirectoryOrDatasetNode
\* calls is_dataset(dir_path), for the root first, then for each directory
DsTreeNode ==
    /\ scan # <<>>
    /\ scan.at = "ds_tree"
    /\ \E path \in {IF scan.i = 0 THEN RootPath ELSE FlatDir(scan.i)} :
       \E r \in {lru_cache(lru, path, is_dataset_uncached(path))} :
          /\ Asked(path, r)
          /\ scan' = IF scan.i = 0 THEN [scan EXCEPT !.i = 1]
                     ELSE IF ~r.result THEN AfterDirectory(scan)
                     ELSE IF RootPath \in scan.visited_parents
                     THEN [scan EXCEPT !.at = "subtree",
                                       !.visited_parents = @ \cup {path}]
                     ELSE [scan EXCEPT !.at = "parents"]
    /\ UNCHANGED truth
    /\ UNCHANGED <<tree_vars, itertools_vars, call_vars, pair_vars>>

\* _generate_ds_with_parents yields the parent of a dataset: the root,
\* through DirectoryOrDatasetNode, which calls is_dataset(parent)
ParentNode ==
    /\ scan # <<>>
    /\ scan.at = "parents"
    /\ \E r \in {lru_cache(lru, RootPath, is_dataset_uncached(RootPath))} :
          /\ Asked(RootPath, r)
          /\ scan' = [scan EXCEPT !.at = "subtree",
                           !.visited_parents = @ \cup {RootPath, FlatDir(scan.i)}]
    /\ UNCHANGED truth
    /\ UNCHANGED <<tree_vars, itertools_vars, call_vars, pair_vars>>

\* _generate_dataset_nodes walks the content of the dataset: the subtree
\* has traverse_datasets=False, so "condition" calls is_dataset(dir_path)
SubtreeCondition ==
    /\ scan # <<>>
    /\ scan.at = "subtree"
    /\ \E path \in {FlatDir(scan.i)} :
       \E r \in {lru_cache(lru, path, is_dataset_uncached(path))} :
          /\ Asked(path, r)
          /\ scan' = AfterDirectory(scan)
    /\ UNCHANGED truth
    /\ UNCHANGED <<tree_vars, itertools_vars, call_vars, pair_vars>>

\* another process makes the watched directory a dataset, or no dataset
Change ==
    /\ scan # <<>>
    /\ scan.at # "done"
    /\ scan.changes < MaxChanges
    /\ truth' = IF Watched \in truth THEN truth \ {Watched}
                                     ELSE truth \cup {Watched}
    /\ scan' = [scan EXCEPT !.changes = @ + 1]
    /\ UNCHANGED <<lru, probes, decided>>
    /\ UNCHANGED <<tree_vars, itertools_vars, call_vars, pair_vars>>

NextCache == FindAllDatasets \/ DsTreeNode \/ ParentNode \/ SubtreeCondition \/ Change

SpecCache == InitCache /\ [][NextCache]_vars

(***************************************************************************)
(* DatasetNode.calculate_dataset_depth over any superdataset relation of   *)
(* a hierarchy "/r", "/r/a", "/r/a/a", ...: get_superdataset() of a        *)
(* dataset returns None, the dataset itself, or a dataset above it.        *)
(***************************************************************************)
\* the levels below "/r" in the hierarchy
MaxChain == 3

\* the path of k components
ChainPath(k) == [i \in 1..k |-> IF i = 1 THEN RootPath[1] ELSE NameA]

Hierarchy == {ChainPath(k) : k \in 1..(MaxChain + 1)}

\* what get_superdataset() may return for each dataset
SuperdatasetRelations ==
    {f \in [Hierarchy -> {None} \cup {Some(q) : q \in Hierarchy}] :
        \A p \in Hierarchy :
            f[p] = None \/ f[p][1] = p \/ IsBelow(p, f[p][1])}

\* the loop without the test for the dataset itself
DepthWalkTurnWithoutSentinel(c, o) ==
    LET superds == c.get_superdataset[o.ds]
    IN  IF superds = None THEN [o EXCEPT !.at = "returned"]
        ELSE IF parents(c.path, c.depth) = <<>>
        THEN [o EXCEPT !.at = "raised", !.ds_absolute_depth = @ + 1]
        ELSE [o EXCEPT !.ds = superds[1],
                       !.ds_absolute_depth = @ + 1,
                       !.ds_depth =
                           IF is_relative_to(superds[1], parents(c.path, c.depth)[1])
                           THEN @ + 1 ELSE @,
                       !.turns = @ + 1]

\* one turn of the while loop of calculate_dataset_depth on the node of
\* call c, from the locals o: "returned" after a break, "raised" when
\* self.tree_root fails with IndexError; turns counts the times ds has
\* moved up
DepthWalkTurn(c, o) ==
    LET superds == c.get_superdataset[o.ds]
    IN  IF superds = None THEN [o EXCEPT !.at = "returned"]
        ELSE IF superds[1] = o.ds THEN [o EXCEPT !.at = "returned"]
        ELSE IF parents(c.path, c.depth) = <<>>
        THEN [o EXCEPT !.at = "raised", !.ds_absolute_depth = @ + 1]
        ELSE [o EXCEPT !.ds = superds[1],
                       !.ds_absolute_depth = @ + 1,
                       !.ds_depth =
                           IF is_relative_to(superds[1], parents(c.path, c.depth)[1])
                           THEN @ + 1 ELSE @,
                       !.turns = @ + 1]

\* a dataset node of the hierarchy, at any depth below a tree root, is
\* about to compute its depths
InitDepthWalk ==
    /\ NoCommand
    /\ NoPipeline
    /\ NoCache
    /\ NoPair
    /\ \E p \in Hierarchy :
          call \in [func : {"calculate_dataset_depth"},
                    path : {p},
                    depth : 0..(Len(p) - 1),
                    get_superdataset : SuperdatasetRelations]
    /\ outcome = <<>>

\* calculate_dataset_depth is entered: both depths 0, ds = self.ds
EnterDepthWalk ==
    /\ call # <<>> /\ call.func = "calculate_dataset_depth"
    /\ outcome = <<>>
    /\ outcome' = <<[at |-> "loop", ds |-> call.path, ds_depth |-> 0,
                     ds_absolute_depth |-> 0, turns |-> 0]>>
    /\ UNCHANGED call
    /\ UNCHANGED <<tree_vars, itertools_vars, cache_vars, pair_vars>>

\* the loop is run once more
TurnDepthWalk ==
    /\ call # <<>> /\ call.func = "calculate_dataset_depth"
    /\ outcome # <<>>
    /\ outcome[1].at = "loop"
    /\ outcome' = <<DepthWalkTurn(call, outcome[1])>>
    /\ UNCHANGED call
    /\ UNCHANGED <<tree_vars, itertools_vars, cache_vars, pair_vars>>

NextDepthWalk == EnterDepthWalk \/ TurnDepthWalk

SpecDepthWalk == InitDepthWalk /\ [][NextDepthWalk]_vars

(***************************************************************************)
(* increment_node_count: the generator of _wrapper around any node         *)
(* generator, on a Tree whose _stats start at zero.                        *)
(***************************************************************************)
\* the nodes the wrapped generator yields at most
MaxNodes == 3

\* the classes of the nodes: the three counted ones and the base class
NodeClasses == {"DirectoryNode", "DatasetNode", "FileNode", "_TreeNode"}

WrappedNodes == [kind : NodeClasses, depth : 0..1]

\* the wrapper yielding whatever it is given
wrapper_next_without_check(nodes, o) ==
    IF o.taken >= Len(nodes) THEN [o EXCEPT !.at = "exhausted"]
    ELSE LET node == nodes[o.taken + 1]
         IN  [o EXCEPT !.at = "suspended", !.taken = @ + 1,
                       !.yielded = Append(@, node)]

\* next() on the generator of _wrapper: nodes is what the wrapped
\* generator yields, o the generator: how many nodes it has taken, _stats,
\* and what it has yielded
wrapper_next(nodes, o) ==
    IF o.taken >= Len(nodes) THEN [o EXCEPT !.at = "exhausted"]
    ELSE LET node == nodes[o.taken + 1]
         IN  IF node.kind \notin DOMAIN o.stats
             THEN [o EXCEPT !.at = "raised", !.taken = @ + 1]
             ELSE [o EXCEPT !.at = "suspended", !.taken = @ + 1,
                            !.stats = StatsAfter(@, node),
                            !.yielded = Append(@, node)]

\* a decorated generate_nodes is about to be called
InitWrapper ==
    /\ NoCommand
    /\ NoPipeline
    /\ NoCache
    /\ NoPair
    /\ call \in [func : {"increment_node_count"},
                 nodes : SeqsUpTo(WrappedNodes, MaxNodes)]
    /\ outcome = <<>>

\* gen = tree.generate_nodes(): nothing of the body has run
CallWrapper ==
    /\ call # <<>> /\ call.func = "increment_node_count"
    /\ outcome = <<>>
    /\ outcome' = <<[at |-> "created", taken |-> 0, stats |-> ZeroStats,
                     yielded |-> <<>>]>>
    /\ UNCHANGED call
    /\ UNCHANGED <<tree_vars, itertools_vars, cache_vars, pair_vars>>

\* next(gen)
NextOfWrapper ==
    /\ call # <<>> /\ call.func = "increment_node_count"
    /\ outcome # <<>>
    /\ outcome[1].at \in {"created", "suspended"}
    /\ outcome' = <<wrapper_next(call.nodes, outcome[1])>>
    /\ UNCHANGED call
    /\ UNCHANGED <<tree_vars, itertools_vars, cache_vars, pair_vars>>

NextWrapper == CallWrapper \/ NextOfWrapper

SpecWrapper == InitWrapper /\ [][NextWrapper]_vars

(***************************************************************************)
(* Two print_line() generators held at the same time and advanced in any   *)
(* order: both of one Tree object, or of two Tree objects made with the    *)
(* same arguments on the same directory.  Plain Tree objects only.         *)
(***************************************************************************)
\* a Tree object after __init__: its mutable fields
NewObject == [lines |-> <<>>, stats |-> ZeroStats]

\* a print_line() generator before its first next()
NewGenerator(self, object) ==
    [of |-> object, at |-> "created", stack |-> NewStack(self), levels |-> {},
     yielded |-> <<>>]

\* the first branch of print_line has its line: it is cached, then yielded
WalkYielded(obj, gen, r, lv, line) ==
    [gen |-> [gen EXCEPT !.at = "walking", !.stack = r.stack, !.levels = lv,
                         !.yielded = Append(@, line)],
     object |-> [lines |-> cache_line(obj.lines, line),
                 stats |-> StatsAfter(obj.stats, r.out[1])]]

\* _yield_lines has its node: the levels, then the line
WalkRendered(obj, gen, r, lv) ==
    CHOOSE x \in {WalkYielded(obj, gen, r, lv, line) :
                     line \in {Line(lv, r.out[1])}} : TRUE

\* next() on the first branch of print_line, r being what next() on
\* generate_nodes() gave
WalkAfter(obj, gen, r) ==
    IF r.raised
    THEN [gen |-> [gen EXCEPT !.at = "raised", !.stack = <<>>], object |-> obj]
    ELSE IF r.out = <<>>
    THEN [gen |-> [gen EXCEPT !.at = "done", !.stack = <<>>], object |-> obj]
    ELSE CHOOSE x \in {WalkRendered(obj, gen, r, lv) :
                          lv \in {LevelsAfter(gen.levels, r.out[1])}} : TRUE

\* next() on the second branch of print_line: the iterator over
\* self._lines gives the next line of the list as it is now, and "\n"
\* follows each line
ReplayNext(obj, gen) ==
    IF Len(gen.yielded) % 2 = 1
    THEN [gen |-> [gen EXCEPT !.at = "replaying",
                              !.yielded = Append(@, <<Newline>>)],
          object |-> obj]
    ELSE IF Len(gen.yielded) \div 2 < Len(obj.lines)
    THEN [gen |-> [gen EXCEPT !.at = "replaying",
                              !.yielded = Append(@, obj.lines[(Len(gen.yielded) \div 2) + 1])],
          object |-> obj]
    ELSE [gen |-> [gen EXCEPT !.at = "done"], object |-> obj]

\* next() on a print_line() generator of the Tree self with the fields obj
print_line_next(self, obj, gen, order) ==
    IF gen.at = "walking" \/ (gen.at = "created" /\ obj.lines = <<>>)
    THEN CHOOSE x \in {WalkAfter(obj, gen, r) :
            r \in {generate_nodes(self, gen.stack, NewDatasetGenerators, order)}} : TRUE
    ELSE ReplayNext(obj, gen)

\* two Tree objects have been made on a directory, with the same arguments
InitPair ==
    /\ fs \in SmallFileSystems
    /\ datasets \in DatasetChoices(fs)
    /\ args \in {a \in TreeArgs({FALSE}) : a.include_hidden /\ a.traverse_datasets}
    /\ tree = NewTree(args)
    /\ pc = "unused"
    /\ lines = <<>>
    /\ stats = <<>>
    /\ stack = <<>>
    /\ dsgen = <<>>
    /\ levels = {}
    /\ emitted = <<>>
    /\ printed = <<>>
    /\ report = <<>>
    /\ first = <<>>
    /\ listed = {}
    /\ content_of = <<>>
    /\ returned = <<>>
    /\ objects = <<NewObject, NewObject>>
    /\ generators = <<>>
    /\ NoPipeline
    /\ NoCall
    /\ NoCache

\* g1 = t1.print_line(); g2 = t1.print_line(), or g2 = t2.print_line()
HoldTwoGenerators ==
    /\ generators = <<>>
    /\ objects # <<>>
    /\ \E other \in 1..2 :
          generators' = <<NewGenerator(tree, 1), NewGenerator(tree, other)>>
    /\ UNCHANGED objects
    /\ UNCHANGED <<tree_vars, itertools_vars, call_vars, cache_vars>>

\* next(g1) or next(g2)
NextOfEither ==
    /\ generators # <<>>
    /\ \E k \in 1..2 :
          /\ generators[k].at \in {"created", "walking", "replaying"}
          /\ \E order \in ScanOrders :
             \E r \in {print_line_next(tree, objects[generators[k].of],
                                       generators[k], order)} :
                /\ generators' = [generators EXCEPT ![k] = r.gen]
                /\ objects' = [objects EXCEPT ![generators[k].of] = r.object]
    /\ UNCHANGED <<tree_vars, itertools_vars, call_vars, cache_vars>>

NextPair == HoldTwoGenerators \/ NextOfEither

SpecPair == InitPair /\ [][NextPair]_vars

----------------------------------------------------------------------------
\* What the traversal is expected to do, stated over the tree on disk and
\* the arguments, independently of the generators above.

\* a Tree object exists
Built == pc \in {"ready", "running", "done", "reported", "crashed"}

\* plain mode
Plain == Built /\ tree.class = "Tree"

\* the traversal has run to its end
Walked == pc \in {"done", "reported"}

EmittedPaths == {emitted[i].path : i \in DOMAIN emitted}

\* the depth of a path counted in path components below the root
ComponentsBelowRoot(p) == Len(p) - Len(tree.root)

\* the paths from the first one below the root down to strictly above p,
\* and down to p itself
AncestorsBelowRoot(p) ==
    {SubSeq(p, 1, n) : n \in (Len(tree.root) + 1)..(Len(p) - 1)}

ChainBelowRoot(p) == AncestorsBelowRoot(p) \cup {p}

\* the include_files and include_hidden filters
PassesFilters(p) ==
    /\ tree.include_files \/ ~IsFile(p)
    /\ tree.include_hidden \/ ~StartsWithDot(PathName(p))

\* an entry below the root that plain mode has to emit
Qualifies(p) ==
    /\ p \in DOMAIN fs
    /\ IsBelow(p, tree.root)
    /\ IsFile(p) \/ IsDir(p)
    /\ \A q \in ChainBelowRoot(p) : PassesFilters(q)
    /\ tree.max_depth # None => ComponentsBelowRoot(p) <= tree.max_depth[1]
    /\ ~tree.traverse_datasets =>
          \A q \in AncestorsBelowRoot(p) : q \notin datasets

QualifyingPaths ==
    (IF tree.skip_root THEN {} ELSE {tree.root})
        \cup {p \in DOMAIN fs : Qualifies(p)}

\* C1: in plain mode the nodes come in depth-first pre-order with siblings
\* in ascending order of their names: a node never precedes the node of
\* a directory above it, the nodes below a directory follow it as one
\* contiguous run, the parent of a node below the first level has been
\* emitted, and of two siblings the one with the smaller name comes first
\* together with everything below it.
PreOrderSortedSiblings ==
    Plain =>
      \A i, j \in DOMAIN emitted :
         /\ i < j => ~IsBelow(emitted[i].path, emitted[j].path)
         /\ (i < j /\ IsBelow(emitted[j].path, emitted[i].path)) =>
               \A k \in i..j : k # i => IsBelow(emitted[k].path, emitted[i].path)
         /\ ComponentsBelowRoot(emitted[j].path) > 1 =>
               \E k \in 1..(j - 1) :
                  emitted[k].path = PathParent(emitted[j].path)
         /\ ( /\ PathParent(emitted[i].path) = PathParent(emitted[j].path)
              /\ StrLess(PathName(emitted[i].path), PathName(emitted[j].path)) )
            => /\ i < j
               /\ \A k \in DOMAIN emitted :
                     IsBelow(emitted[k].path, emitted[i].path) => k < j

\* a directory, a node below it, and then a sibling of the directory
PreOrderWitness ==
    /\ Plain /\ Walked
    /\ \E i, j, k \in DOMAIN emitted :
          /\ i < j /\ j < k
          /\ IsBelow(emitted[j].path, emitted[i].path)
          /\ emitted[i].path # tree.root
          /\ PathParent(emitted[k].path) = PathParent(emitted[i].path)

\* C2: in plain mode every qualifying entry is emitted exactly once: the
\* root unless skip_root, and every file or directory below it that
\* passes the filters together with its ancestors, lies within max_depth
\* and, with traverse_datasets off, is not strictly below a non-root
\* dataset.  Nothing else is ever emitted, nothing twice, and an empty or
\* entirely filtered directory still has its node.  "Every entry" is
\* stated of the walks that run to their end; a walk that stops with the
\* IndexError of calculate_dataset_depth has emitted nothing.
EveryQualifyingEntryOnce ==
    Plain =>
      /\ EmittedPaths \subseteq QualifyingPaths
      /\ \A i, j \in DOMAIN emitted :
            emitted[i].path = emitted[j].path => i = j
      /\ Walked => EmittedPaths = QualifyingPaths

\* a finished walk that emitted a directory none of whose entries qualify,
\* and left an entry out
EveryQualifyingEntryOnceWitness ==
    /\ Plain /\ Walked
    /\ \E i \in DOMAIN emitted :
          /\ emitted[i].path # tree.root
          /\ iterdir(emitted[i].path) # {}
          /\ \A c \in iterdir(emitted[i].path) : c \notin EmittedPaths

\* the emitted nodes of the entries of a directory
EmittedChildren(dir) ==
    {i \in DOMAIN emitted : PathParent(emitted[i].path) = dir}

\* C3: in plain mode, after the walk, every directory with at least one
\* qualifying child has exactly one emitted child with is_last_child set,
\* and that child is the last of the directory's children to be emitted
\* (the last one in the sorted list of the qualifying children).
ExactlyOneLastChild ==
    (Plain /\ Walked) =>
      \A dir \in EmittedPaths \cup {tree.root} :
         EmittedChildren(dir) # {} =>
            \E i \in EmittedChildren(dir) :
               /\ emitted[i].is_last_child
               /\ \A j \in EmittedChildren(dir) :
                     /\ j <= i
                     /\ j # i => ~emitted[j].is_last_child
                     /\ j # i => StrLess(PathName(emitted[j].path),
                                         PathName(emitted[i].path))

\* C4: in plain mode the root node has depth 0 and every other node has
\* the depth of its parent plus one, which is the number of path
\* components between the root and the node.
DepthIsDistanceFromRoot ==
    Plain =>
      \A i \in DOMAIN emitted :
         /\ emitted[i].depth = ComponentsBelowRoot(emitted[i].path)
         /\ emitted[i].path = tree.root => emitted[i].depth = 0
         /\ \A j \in DOMAIN emitted :
               emitted[j].path = PathParent(emitted[i].path) =>
                  emitted[i].depth = emitted[j].depth + 1

\* the root, an entry of it and an entry of that entry have been emitted
DepthWitness ==
    /\ Plain /\ Walked
    /\ \E i, j, k \in DOMAIN emitted :
          /\ emitted[i].path = tree.root
          /\ emitted[i].path = PathParent(emitted[j].path)
          /\ emitted[j].path = PathParent(emitted[k].path)
          /\ emitted[k].depth = 2

\* C5: in plain mode with max_depth = m >= 0 no emitted node is deeper
\* than m; with m = 0 the walk emits the root alone, and nothing at all
\* with skip_root.
NoNodeBelowMaxDepth ==
    (Plain /\ tree.max_depth # None) =>
      /\ \A i \in DOMAIN emitted :
            /\ emitted[i].depth <= tree.max_depth[1]
            /\ ComponentsBelowRoot(emitted[i].path) <= tree.max_depth[1]
      /\ (tree.max_depth[1] = 0 /\ Walked) =>
            /\ EmittedPaths = IF tree.skip_root THEN {} ELSE {tree.root}
            /\ Len(emitted) = IF tree.skip_root THEN 0 ELSE 1

\* a walk with max_depth = 1 over a tree that goes deeper has stopped at
\* the first level
MaxDepthWitness ==
    /\ Plain /\ Walked
    /\ tree.max_depth = Some(1)
    /\ tree.include_files /\ tree.include_hidden /\ tree.traverse_datasets
    /\ \E p \in DOMAIN fs : ComponentsBelowRoot(p) = 2 /\ IsFile(p)
    /\ \E i \in DOMAIN emitted : emitted[i].depth = 1

\* the tree of the example: a directory "a", a file "b" and a hidden
\* directory ".h" in the root
ExampleTree ==
    [p \in {Append(RootPath, NameA), Append(RootPath, NameB),
            Append(RootPath, NameHidden)} |->
        IF p = Append(RootPath, NameB) THEN "file" ELSE "dir"]

ExampleRun ==
    /\ Plain
    /\ fs = ExampleTree /\ datasets = {}
    /\ tree.root = RootPath /\ tree.max_depth # Some(0)
    /\ ~tree.include_files /\ ~tree.include_hidden

\* C6: in plain mode, with include_files off no file node is emitted, and
\* with include_hidden off no emitted node below the root has a name that
\* starts with a dot or lies below a directory with such a name.  On the
\* example tree with both flags off the walk emits below the root exactly
\* the node of "a", and the statistics are 0 datasets, 1 directory,
\* 0 files.
FiltersExcludeFilesAndHidden ==
    Plain =>
      /\ ~tree.include_files =>
            \A i \in DOMAIN emitted :
               emitted[i].kind # "FileNode" /\ ~IsFile(emitted[i].path)
      /\ ~tree.include_hidden =>
            \A i \in DOMAIN emitted :
               emitted[i].path # tree.root =>
                  \A q \in ChainBelowRoot(emitted[i].path) :
                     ~StartsWithDot(PathName(q))
      /\ (ExampleRun /\ pc = "reported") =>
            /\ {emitted[i] : i \in EmittedChildren(RootPath)}
                  = {[ kind |-> "DirectoryNode", path |-> Append(RootPath, NameA),
                       depth |-> 1, is_last_child |-> TRUE,
                       use_full_paths |-> FALSE ]}
            /\ EmittedPaths \subseteq {RootPath, Append(RootPath, NameA)}
            /\ report = <<0, 1, 0>>

\* the example has been run to its report
FiltersWitness == ExampleRun /\ pc = "reported" /\ Len(emitted) = 2

\* the arguments Tree.__init__ does not accept
InvalidArguments ==
    \/ ~IsDir(args.root)
    \/ args.max_depth # None /\ args.max_depth[1] < 0

\* C9: constructing a Tree with a root that is not an existing directory,
\* or with a negative max_depth, fails with ValueError: no Tree object
\* comes to exist, no node is emitted, no line printed or cached and no
\* statistic counted.  Valid arguments never fail this way.
ConstructionFailsOnInvalidArguments ==
    /\ (pc # "init" /\ InvalidArguments) =>
          /\ pc = "error"
          /\ tree = NoTree
          /\ emitted = <<>> /\ lines = <<>> /\ printed = <<>>
          /\ stats = <<>> /\ report = <<>> /\ listed = {}
    /\ pc = "error" => InvalidArguments

\* the construction has failed for a negative max_depth on a root that
\* exists
ConstructionFailsWitness ==
    /\ pc = "error"
    /\ IsDir(args.root)
    /\ args.max_depth = Some(-1)

\* the datasets below the root
NonRootDatasets == {p \in datasets : IsBelow(p, tree.root)}

\* plain mode with traverse_datasets off
Bounded == Plain /\ ~tree.traverse_datasets

\* C10 as stated: in plain mode with traverse_datasets off and any
\* max_depth, every dataset directory below the root is emitted as a
\* dataset node and no entry strictly below it is emitted or listed.
EveryDatasetEmittedAsBoundary ==
    (Bounded /\ Walked) =>
      \A p \in NonRootDatasets :
         /\ \E i \in DOMAIN emitted :
               emitted[i].path = p /\ emitted[i].kind = "DatasetNode"
         /\ p \notin listed
         /\ \A i \in DOMAIN emitted : ~IsBelow(emitted[i].path, p)

\* C10, amended: in plain mode with traverse_datasets off and any
\* max_depth, every dataset directory below the root that qualifies (it
\* passes the filters together with its ancestors, lies within max_depth
\* and not below another non-root dataset) is emitted as a dataset node;
\* no dataset directory below the root is ever listed and no entry
\* strictly below one is emitted; the entries of the root are still
\* listed, and those that qualify emitted, when the root is a dataset.
DatasetsAreBoundaries ==
    Bounded =>
      /\ \A p \in NonRootDatasets :
            /\ p \notin listed
            /\ \A i \in DOMAIN emitted :
                  /\ ~IsBelow(emitted[i].path, p)
                  /\ emitted[i].path = p => emitted[i].kind = "DatasetNode"
            /\ (Walked /\ Qualifies(p)) =>
                  \E i \in DOMAIN emitted :
                     emitted[i].path = p /\ emitted[i].kind = "DatasetNode"
      /\ (Walked /\ tree.root \in datasets /\ tree.max_depth # Some(0)) =>
            /\ tree.root \in listed
            /\ \A c \in iterdir(tree.root) :
                  Qualifies(c) => c \in EmittedPaths

\* a walk from a root that is a dataset has emitted a dataset of the first
\* level and left out what that dataset holds
DatasetsAreBoundariesWitness ==
    /\ Bounded /\ Walked
    /\ tree.root \in datasets
    /\ tree.include_files /\ tree.include_hidden /\ tree.max_depth = None
    /\ \E i \in DOMAIN emitted :
          /\ emitted[i].kind = "DatasetNode"
          /\ emitted[i].depth = 1
          /\ iterdir(emitted[i].path) # {}

\* the emitted nodes of a kind below the root
CountOfKind(kind) ==
    Cardinality({i \in DOMAIN emitted :
                    emitted[i].kind = kind /\ emitted[i].depth > 0})

\* C7: after a complete traversal, in plain or in dataset mode, the three
\* counters that stats() reports, in the order datasets, directories,
\* files, are the numbers of emitted nodes of each kind with depth > 0:
\* the root is not counted, every node is of exactly one of the three
\* kinds, and the counters add up to the number of emitted nodes that are
\* not the root.
CountersMatchEmittedNodes ==
    Walked =>
      /\ stats["DatasetNode"] = CountOfKind("DatasetNode")
      /\ stats["DirectoryNode"] = CountOfKind("DirectoryNode")
      /\ stats["FileNode"] = CountOfKind("FileNode")
      /\ \A i \in DOMAIN emitted :
            /\ emitted[i].kind \in {"DatasetNode", "DirectoryNode", "FileNode"}
            /\ emitted[i].depth = 0 <=> emitted[i].path = tree.root
      /\ stats["DatasetNode"] + stats["DirectoryNode"] + stats["FileNode"]
            = Cardinality({i \in DOMAIN emitted : emitted[i].path # tree.root})
      /\ pc = "reported" =>
            report = <<CountOfKind("DatasetNode"), CountOfKind("DirectoryNode"),
                       CountOfKind("FileNode")>>

\* a report after a walk that emitted the root and a node of each of two
\* kinds below it
CountersWitness ==
    /\ pc = "reported"
    /\ \E i \in DOMAIN emitted : emitted[i].depth = 0
    /\ report[1] > 0
    /\ report[2] + report[3] > 0

\* a report of dataset mode that counts a dataset
CountersDatasetModeReached ==
    pc = "reported" /\ tree.class = "DatasetTree" /\ report[1] > 0

\* C8: two traversals of the same unchanged tree with the same arguments
\* print the same lines and report the same statistics, whatever order
\* the directory scans give the entries in.
SecondRunPrintsTheSame ==
    (first # <<>> /\ pc = "reported") =>
      /\ printed = first[1].printed
      /\ report = first[1].report

\* a second run has printed a root with two entries of one directory
SecondRunWitness ==
    /\ first # <<>> /\ pc = "reported"
    /\ Len(printed) >= 3
    /\ \E i, j \in DOMAIN emitted :
          /\ i # j
          /\ PathParent(emitted[i].path) = PathParent(emitted[j].path)

\* C11: every emitted node is of exactly one of the kinds directory, file
\* and dataset; a node of a directory is a dataset node if and only if
\* the dataset predicate is true of its path, and file nodes are emitted
\* for plain files only.
KindFollowsEntryAndPredicate ==
    \A i \in DOMAIN emitted :
       /\ emitted[i].kind \in {"DirectoryNode", "FileNode", "DatasetNode"}
       /\ emitted[i].kind = "FileNode" <=> IsFile(emitted[i].path)
       /\ emitted[i].kind # "FileNode" <=> IsDir(emitted[i].path)
       /\ emitted[i].kind = "DatasetNode" <=>
             (IsDir(emitted[i].path) /\ emitted[i].path \in datasets)

\* a walk has emitted a node of each kind
KindWitness ==
    /\ Walked
    /\ \E i, j, k \in DOMAIN emitted :
          /\ emitted[i].kind = "DirectoryNode"
          /\ emitted[j].kind = "DatasetNode"
          /\ emitted[k].kind = "FileNode"

\* dataset mode
DatasetMode == Built /\ tree.class = "DatasetTree"

AtOrBelowRoot(p) == p = tree.root \/ IsBelow(p, tree.root)

\* the datasets strictly above p that are at or below the root: their
\* number is the dataset depth of p
DatasetsAbove(p) == {q \in datasets : IsBelow(p, q) /\ AtOrBelowRoot(q)}

\* the datasets at or below the root down to max_dataset_depth
InScopeDatasets ==
    {p \in datasets :
        /\ AtOrBelowRoot(p)
        /\ Cardinality(DatasetsAbove(p)) <= tree.max_dataset_depth}

\* where in the stream the node of a path is
NodesOf(p) == {i \in DOMAIN emitted : emitted[i].path = p}

\* C12: in dataset mode every dataset at or below the root whose dataset
\* depth is at most max_dataset_depth is emitted as a dataset node,
\* exactly once.
EveryInScopeDatasetEmittedOnce ==
    (DatasetMode /\ Walked) =>
      \A p \in InScopeDatasets :
         /\ Cardinality(NodesOf(p)) = 1
         /\ \A i \in NodesOf(p) : emitted[i].kind = "DatasetNode"

\* C13: in dataset mode no dataset deeper than max_dataset_depth is ever
\* emitted, and none is in the set of datasets that is scanned before
\* the walk; the dataset depth a dataset node carries is the number of
\* datasets above it at or below the root.
NoOutOfScopeDataset ==
    DatasetMode =>
      /\ dsgen.all_datasets \subseteq InScopeDatasets
      /\ \A i \in DOMAIN emitted :
            /\ emitted[i].path \in datasets =>
                  emitted[i].path \in InScopeDatasets
            /\ emitted[i].kind = "DatasetNode" =>
                  /\ emitted[i].ds_depth <= tree.max_dataset_depth
                  /\ emitted[i].ds_depth
                        = Cardinality(DatasetsAbove(emitted[i].path))

\* a walk over a tree with a dataset that is too deep has emitted a
\* dataset that is not
NoOutOfScopeDatasetWitness ==
    /\ DatasetMode /\ Walked
    /\ \E q \in datasets : AtOrBelowRoot(q) /\ q \notin InScopeDatasets
    /\ dsgen.all_datasets # {}
    /\ \E i \in DOMAIN emitted : emitted[i].kind = "DatasetNode"

\* C14: in dataset mode every emitted dataset node comes after a node for
\* each directory above it from the root down (the root itself unless
\* skip_root), in that order; for every emitted node below the root a
\* node of its parent has been emitted before it, unless the parent is
\* the suppressed root.
AncestorsPrecedeInDatasetMode ==
    DatasetMode =>
      \A i \in DOMAIN emitted :
         /\ ( /\ ComponentsBelowRoot(emitted[i].path) > 0
              /\ ~(tree.skip_root /\ PathParent(emitted[i].path) = tree.root) )
            => \E j \in 1..(i - 1) :
                  emitted[j].path = PathParent(emitted[i].path)
         /\ emitted[i].kind = "DatasetNode" =>
               \A q \in AncestorsBelowRoot(emitted[i].path)
                        \cup (IF tree.skip_root \/ emitted[i].path = tree.root
                              THEN {} ELSE {tree.root}) :
                  \E j \in 1..(i - 1) :
                     /\ emitted[j].path = q
                     /\ \A k \in 1..(j - 1) : ~IsBelow(emitted[k].path, q)

\* the paths strictly between a directory and an entry below it, and the
\* entry
ChainBelow(dir, p) == {SubSeq(p, 1, n) : n \in (Len(dir) + 1)..Len(p)}

\* the content of a dataset that dataset mode has to show: the files and
\* directories below it that pass the filters together with what lies
\* between, down to max_depth levels, that are no datasets and lie in none
ContentOf(ds) ==
    {p \in DOMAIN fs :
        /\ IsBelow(p, ds)
        /\ IsFile(p) \/ IsDir(p)
        /\ \A q \in ChainBelow(ds, p) : PassesFilters(q) /\ q \notin datasets
        /\ Len(p) - Len(ds) <= tree.max_depth[1]}

\* C15: in dataset mode the content of every emitted dataset is emitted
\* after the node of the dataset: every entry of it that passes the
\* filters, lies at most max_depth levels below it and is neither a
\* nested dataset nor inside one (nothing with max_depth = 0).
ContentFollowsEveryDataset ==
    (DatasetMode /\ Walked) =>
      \A i \in DOMAIN emitted :
         emitted[i].kind = "DatasetNode" =>
            \A p \in ContentOf(emitted[i].path) :
               \E j \in DOMAIN emitted : j > i /\ emitted[j].path = p

\* the emitted nodes that a content walk gave
ContentNodes == {i \in DOMAIN emitted : content_of[i] # <<>>}

\* the path of the dataset whose content walk gave node i
DatasetOf(i) == content_of[i][1].path

\* C16: in dataset mode every node emitted as content of a dataset lies
\* below that dataset, at most max_depth levels below it, and not
\* strictly inside a dataset nested in it.
ContentStaysWithinDataset ==
    DatasetMode =>
      \A i \in ContentNodes :
         /\ IsBelow(emitted[i].path, DatasetOf(i))
         /\ Len(emitted[i].path) - Len(DatasetOf(i)) <= tree.max_depth[1]
         /\ \A q \in datasets :
               IsBelow(q, DatasetOf(i)) => ~IsBelow(emitted[i].path, q)

\* a content node of a dataset that holds a nested dataset with entries
\* of its own, which max_depth would have allowed
ContentStaysWitness ==
    /\ DatasetMode /\ Walked
    /\ tree.include_files /\ tree.include_hidden
    /\ \E i \in ContentNodes :
          \E q \in datasets :
             /\ IsBelow(q, DatasetOf(i))
             /\ \E p \in iterdir(q) :
                   Len(p) - Len(DatasetOf(i)) <= tree.max_depth[1]

\* C17: in dataset mode every node emitted from the content of a dataset
\* has the depth of the dataset's node plus its own depth below the
\* dataset, the depth of the dataset's node being the dataset's depth
\* below the root; so a content node is one deeper than the node of its
\* parent.
ContentDepthIsOffset ==
    DatasetMode =>
      \A i \in ContentNodes :
         /\ emitted[i].depth
               = content_of[i][1].depth
                    + (Len(emitted[i].path) - Len(DatasetOf(i)))
         /\ content_of[i][1].depth = ComponentsBelowRoot(DatasetOf(i))
         /\ \A j \in DOMAIN emitted :
               /\ emitted[j].path = DatasetOf(i) =>
                     emitted[j].depth = content_of[i][1].depth
               /\ emitted[j].path = PathParent(emitted[i].path) =>
                     emitted[i].depth = emitted[j].depth + 1

\* a content node of a dataset that lies below the root
ContentDepthWitness ==
    /\ DatasetMode /\ Walked
    /\ \E i \in ContentNodes :
          /\ content_of[i][1].depth > 0
          /\ emitted[i].depth = content_of[i][1].depth + 1

\* a content node whose parent is a content node too
ContentBelowContentReached ==
    /\ DatasetMode /\ Walked
    /\ \E i, j \in ContentNodes :
          emitted[j].path = PathParent(emitted[i].path)

\* the directories above a dataset that is in scope
AncestorsOfInScopeDatasets ==
    {q \in UNION {ChainBelow(<<>>, p) : p \in InScopeDatasets} :
        \E p \in InScopeDatasets : IsBelow(p, q)}

\* C18: in dataset mode every emitted node is a dataset in scope, a
\* directory above a dataset in scope, or content of an emitted dataset;
\* a tree without datasets gives no node but, at most, the root.
OnlyDatasetsAncestorsAndContent ==
    (DatasetMode /\ Walked) =>
      /\ \A i \in DOMAIN emitted :
            \/ emitted[i].path \in InScopeDatasets
            \/ emitted[i].path \in AncestorsOfInScopeDatasets
            \/ /\ i \in ContentNodes
               /\ \E j \in DOMAIN emitted :
                     /\ emitted[j].path = DatasetOf(i)
                     /\ emitted[j].kind = "DatasetNode"
      /\ InScopeDatasets = {} => EmittedPaths \subseteq {tree.root}

\* what the walk keeps to: every emitted node is a dataset in scope, a
\* directory above one, or was given by the content walk of a dataset in
\* scope, whether or not that dataset has a node of its own
NodesBelongToInScopeDatasets ==
    DatasetMode =>
      /\ \A i \in DOMAIN emitted :
            \/ emitted[i].path \in InScopeDatasets
            \/ emitted[i].path \in AncestorsOfInScopeDatasets
            \/ i \in ContentNodes /\ DatasetOf(i) \in InScopeDatasets
      /\ InScopeDatasets = {} => emitted = <<>>

\* the number of characters a line has before the text of its node (the
\* indentation and the branch tip) and after it (the "/" of a directory
\* below the root and the "  [DS~n]" or "  [DS~n, not installed]" of a
\* dataset)
LengthBeforeText(node) == 4 * node.depth

LengthAfterText(node) ==
    (IF node.kind # "FileNode" /\ node.depth > 0 THEN 1 ELSE 0)
      + (IF node.kind = "DatasetNode"
         THEN (IF node.is_installed THEN 8 ELSE 23) ELSE 0)

\* the text of the node in the i-th printed line
TextOfLine(i) ==
    SubSeq(printed[i], LengthBeforeText(emitted[i]) + 1,
           Len(printed[i]) - LengthAfterText(emitted[i]))

\* C19: with full_paths the text of the line of every emitted node is the
\* full path of the node; without it the text is the name of the node
\* for every node below the root and the full path for the root.  In
\* plain mode and, for every kind of node, in dataset mode.
TextIsFullPathOrName ==
    Built =>
      \A i \in DOMAIN emitted :
         TextOfLine(i) = IF tree.full_paths \/ emitted[i].depth = 0
                         THEN PathStr(emitted[i].path)
                         ELSE PathName(emitted[i].path)

\* the part that holds: the text follows the flag the node carries
TextFollowsNodeFlag ==
    Built =>
      \A i \in DOMAIN emitted :
         TextOfLine(i) = IF emitted[i].use_full_paths \/ emitted[i].depth = 0
                         THEN PathStr(emitted[i].path)
                         ELSE PathName(emitted[i].path)

\* the i-th printed line ends, before what follows the text, with the
\* name of the i-th node
LineIsOfNode(i) ==
    LET text == TextOfLine(i)
        name == PathName(emitted[i].path)
    IN  /\ Len(text) >= Len(name)
        /\ SubSeq(text, Len(text) - Len(name) + 1, Len(text)) = name

\* a node is requested from the node generator only when the line of
\* every node before it has been handed over and cached, and the step
\* that requests it hands over and caches one line more
NodeRequestedAfterLinesHandedOver ==
    emitted' # emitted =>
       /\ Len(printed) = Len(emitted) /\ lines = printed
       /\ Len(emitted') = Len(emitted) + 1
       /\ Len(printed') = Len(printed) + 1
       /\ SubSeq(printed', 1, Len(printed)) = printed
       /\ lines' = printed'

OneLinePerNode ==
    /\ Len(printed) = Len(emitted)
    /\ lines = printed
    /\ \A i \in DOMAIN emitted : LineIsOfNode(i)

\* C20: the renderer gives exactly one line per emitted node, in the
\* order of the nodes, and streams them: the line of the k-th node is
\* handed to the consumer and recorded in the line cache before the
\* (k+1)-th node is requested from the node generator.
LinesAreStreamed ==
    []OneLinePerNode /\ [][NodeRequestedAfterLinesHandedOver]_vars

\* three lines have been printed, one node at a time
LinesAreStreamedWitness ==
    /\ Walked
    /\ Len(printed) = 3 /\ Len(emitted) = 3 /\ Len(lines) = 3

(***************************************************************************)
(* to_string, print_line and build on one Tree object                      *)
(***************************************************************************)
\* the walk of the whole tree, made on a new object
CompleteWalk ==
    Drain(tree, NewStack(tree), NewDatasetGenerators, {}, <<>>, ZeroStats,
          CHOOSE order \in ScanOrders : TRUE)

\* to_string() has returned a string
ToStringReturned == returned # <<>> /\ ~returned[1].raised

\* C21: whatever print_line, to_string and build calls came before on the
\* same Tree, also a print_line generator left after some of its lines,
\* the string to_string() returns is the complete tree: the line of every
\* node of a full walk, joined by newlines
ToStringReturnsCompleteTree ==
    (Constructed /\ ToStringReturned /\ ~CompleteWalk.raised) =>
        returned[1].text = Join(<<Newline>>, CompleteWalk.lines)

(***************************************************************************)
(* route_out and route_in                                                  *)
(***************************************************************************)
\* whether the splitter routes the element around the consumer
RoutedAround(x) == splitter[x][1] = dont_process

\* what route_in is to yield for the element x of the input
JoinedFor(x) ==
    IF RoutedAround(x) THEN joiner(dont_process, splitter[x][2])
    ELSE joiner(Processed(splitter[x][1]), splitter[x][2])

PipelineSetUp == route_in_gen # <<>>

\* C22: in route_in(g(route_out(it, store, splitter)), store, joiner), g
\* yielding one result per element it receives, in order, route_in yields
\* one element per element of it, in the order of it: for element i the
\* joiner's result for g's result and what was stored for i, or for
\* dont_process and what was stored for i when the splitter routed i
\* around g; and when route_in ends nothing of it is missing
RouteInYieldsInputOrder ==
    PipelineSetUp =>
        /\ route_in_gen.at # "failed"
        /\ Len(joined) <= Len(input)
        /\ \A i \in 1..Len(joined) : joined[i] = JoinedFor(input[i])
        /\ route_in_gen.at = "done" => Len(joined) = Len(input)

\* route_in has ended on an input of four elements of which the first and
\* the third were routed around g and the second and fourth were not
RouteInWitness ==
    /\ PipelineSetUp
    /\ route_in_gen.at = "done"
    /\ Len(input) = 4
    /\ RoutedAround(input[1]) /\ ~RoutedAround(input[2])
    /\ RoutedAround(input[3]) /\ ~RoutedAround(input[4])
    /\ Len(joined) = 4

\* route_out is consumed directly
RouteOutSetUp == route_out_gen # "unused" /\ ~PipelineSetUp

\* the elements route_out has taken from its input
Consumed == SubSeq(input, 1, Len(input) - Len(iterable))

RECURSIVE ToProcess(_)
\* the first components of the splitter's results for the elements of xs,
\* dont_process left out
ToProcess(xs) ==
    IF xs = <<>> THEN <<>>
    ELSE (IF RoutedAround(Head(xs)) THEN <<>> ELSE <<splitter[Head(xs)][1]>>)
           \o ToProcess(Tail(xs))

\* C23: route_out yields to its consumer the first components of the
\* splitter's results that are not dont_process, in input order, and
\* appends one entry to data_store for each element it takes from the
\* input; once it is exhausted, nothing having been popped, data_store has
\* as many entries as the input has elements
RouteOutStoresEveryElement ==
    RouteOutSetUp =>
        /\ routed = ToProcess(Consumed)
        /\ Len(data_store) = Len(Consumed)
        /\ route_out_gen = "exhausted" =>
              /\ Len(data_store) = Len(input)
              /\ routed = ToProcess(input)

\* route_out is exhausted after an input of four elements, two of which
\* it yielded
RouteOutWitness ==
    /\ RouteOutSetUp
    /\ route_out_gen = "exhausted"
    /\ Len(input) = 4
    /\ Len(routed) = 2
    /\ RoutedAround(input[1]) /\ RoutedAround(input[4])
    /\ Len(data_store) = 4

(***************************************************************************)
(* join_with_list                                                          *)
(***************************************************************************)
JoinReturned == call # <<>> /\ call.func = "join_with_list" /\ outcome # <<>>

\* C24: join_with_list(processed_data, stored_data) returns
\* [None] + stored_data when processed_data is dont_process, and
\* [processed_data] + stored_data for any other processed_data, of any type
JoinPrependsProcessedData ==
    JoinReturned =>
        outcome[1] =
            IF call.processed_data = dont_process
            THEN PyList(<<PyNone>> \o call.stored_data.items)
            ELSE PyList(<<call.processed_data>> \o call.stored_data.items)

(***************************************************************************)
(* deprecated                                                              *)
(***************************************************************************)
DeprecatedCalled ==
    call # <<>> /\ call.func = "func_with_deprecation_warning" /\ outcome # <<>>

\* the deprecated values of the decoration
DeprecatedValues ==
    IF call.kwarg_values = NoDeprecatedValue THEN {}
    ELSE {call.kwarg_values.items[i] : i \in 1..Len(call.kwarg_values.items)}

\* the named keyword argument is passed by keyword
PassedByKeyword == call.kwarg # None /\ call.kwarg[1] \in DOMAIN call.kwargs

\* the value it is passed
PassedValue == call.kwargs[call.kwarg[1]]

\* the value is a deprecated value, or a list, tuple or dict with a
\* deprecated value among its items or keys
ValueIsDeprecated ==
    \/ PassedValue \in DeprecatedValues
    \/ /\ PassedValue.type \in {"list", "tuple", "dict"}
       /\ \E i \in 1..Len(PassedValue.items) :
             PassedValue.items[i] \in DeprecatedValues

\* when a call is to issue the warning
WarningDue ==
    \/ call.kwarg = None
    \/ PassedByKeyword /\ DeprecatedValues = {}
    \/ PassedByKeyword /\ ValueIsDeprecated

\* C25: a function wrapped by deprecated(msg, version, kwarg, kwarg_values)
\* issues a DeprecationWarning on a call when no kwarg is named, or the
\* named kwarg is passed by keyword and no particular values are
\* deprecated, or it is passed by keyword and its value is a deprecated
\* value or a list, tuple or dict with a deprecated value among its items
\* or keys, and on no other call; in every case it calls the wrapped
\* function once with the original arguments and returns its result
DeprecatedWarnsAndCallsThrough ==
    DeprecatedCalled =>
        /\ outcome[1].warnings = (IF WarningDue THEN 1 ELSE 0)
        /\ ~outcome[1].raised
        /\ outcome[1].calls = <<[args |-> call.args, kwargs |-> call.kwargs]>>
        /\ outcome[1].returned = <<func(call.args, call.kwargs)>>

\* the same for the calls whose value for the named kwarg, and every item
\* of it, can be hashed
DeprecatedWarnsOnHashableValues ==
    (/\ DeprecatedCalled
     /\ PassedByKeyword =>
           /\ PassedValue.type \notin {"list", "dict"} => Hashable(PassedValue)
           /\ PassedValue.type \in {"list", "tuple", "dict"} =>
                 \A i \in 1..Len(PassedValue.items) : Hashable(PassedValue.items[i]))
    => /\ outcome[1].warnings = (IF WarningDue THEN 1 ELSE 0)
       /\ ~outcome[1].raised
       /\ outcome[1].calls = <<[args |-> call.args, kwargs |-> call.kwargs]>>
       /\ outcome[1].returned = <<func(call.args, call.kwargs)>>

(***************************************************************************)
(* Termination of generate_nodes                                           *)
(***************************************************************************)
\* generate_nodes has finished, or has raised
WalkOver == pc \in {"done", "crashed", "reported"}

\* no more nodes than the tree has entries, the root counted
FinitelyManyNodes == Len(emitted) <= Cardinality(DOMAIN fs) + 1

\* a next() on generate_nodes gives a node or the walk is over
YieldsOrEnds ==
    pc = "running" => (pc' \in {"done", "crashed"} \/ Len(emitted') = Len(emitted) + 1)

\* C26: on a finite directory tree generate_nodes terminates, in plain mode
\* and in dataset mode, whatever the bounds and flags: it yields finitely
\* many nodes (no more than the tree has entries, the root counted, each
\* next() giving one) and then it is over
GenerateNodesTerminates ==
    []FinitelyManyNodes /\ [][YieldsOrEnds]_vars

\* a walk in dataset mode is over after it gave two nodes
GenerateNodesTerminatesWitness ==
    /\ DatasetMode
    /\ pc = "done"
    /\ Len(emitted) = 2

(***************************************************************************)
(* The prefix of a line                                                    *)
(***************************************************************************)
\* the nodes among the first i that are at depth L
SeenAtDepth(i, L) == {j \in 1..i : emitted[j].depth = L}

\* the most recent of them
MostRecentAtDepth(i, L) ==
    CHOOSE j \in SeenAtDepth(i, L) : \A k \in SeenAtDepth(i, L) : k <= j

\* the exhausted set after the first i nodes: the levels whose most recent
\* node was a last child
ExhaustedAfter(i) ==
    {L \in 0..MaxFsDepth + 1 :
        SeenAtDepth(i, L) # {} /\ emitted[MostRecentAtDepth(i, L)].is_last_child}

RECURSIVE Segments(_, _, _)
\* the indentation segments of the levels from..to
Segments(exhausted, from, to) ==
    IF from > to THEN <<>>
    ELSE (IF from \in exhausted THEN <<32, 32, 32, 32>> ELSE <<124, 32, 32, 32>>)
           \o Segments(exhausted, from + 1, to)

\* what the rule puts before the text of the i-th node
PrefixByRule(i) ==
    IF emitted[i].depth = 0 THEN <<>>
    ELSE Segments(ExhaustedAfter(i), 1, emitted[i].depth - 1)
           \o (IF emitted[i].is_last_child
               THEN <<9492, 9472, 9472, 32>> ELSE <<9500, 9472, 9472, 32>>)

\* what the i-th printed line has before the text of its node
PrefixOfLine(i) ==
    SubSeq(printed[i], 1,
           Len(printed[i]) - LengthAfterText(emitted[i])
             - Len(IF emitted[i].use_full_paths \/ emitted[i].depth = 0
                   THEN PathStr(emitted[i].path) ELSE PathName(emitted[i].path)))

\* C27: the renderer adds the depth of a node to the exhausted set when the
\* node is a last child and removes it otherwise; the line of a node at
\* depth d >= 1 is d - 1 indentation segments, the branch glyph and the
\* text of the node, the segment of level L being four spaces if L is in
\* the exhausted set (the most recent node at depth L was a last child)
\* and a bar with three spaces otherwise, the glyph being the corner for a
\* last child and the tee otherwise; a node at depth 0 has no prefix
PrefixFollowsExhaustedSet ==
    Built =>
        /\ pc # "ready" => levels = ExhaustedAfter(Len(emitted))
        /\ \A i \in DOMAIN emitted : PrefixOfLine(i) = PrefixByRule(i)

\* a last child at depth 2 was printed after a bar, the most recent node
\* at depth 1 having a sibling to come, and that sibling after it
PrefixWitness ==
    /\ Walked
    /\ \E i \in DOMAIN emitted :
          /\ emitted[i].depth = 2 /\ emitted[i].is_last_child
          /\ SubSeq(printed[i], 1, 8) = <<124, 32, 32, 32, 9492, 9472, 9472, 32>>
          /\ i < Len(emitted)

(***************************************************************************)
(* The indentation and the tree                                            *)
(***************************************************************************)
\* the ancestor at depth L of a path below the root
AncestorAtDepth(p, L) == SubSeq(p, 1, Len(tree.root) + L)

\* the indentation segment of level L in the i-th printed line
SegmentOfLine(i, L) == SubSeq(printed[i], 4 * (L - 1) + 1, 4 * L)

\* after the i-th node a sibling of the entry p is emitted
SiblingToCome(i, p) ==
    \E k \in DOMAIN emitted :
       /\ k > i
       /\ emitted[k].path # p
       /\ PathParent(emitted[k].path) = PathParent(p)

\* C28: in plain mode, the root emitted or not, in the line of every
\* emitted node at depth d >= 2 the indentation segment of every level L
\* in 1..d-1 is blank if and only if the node's ancestor at depth L is the
\* last child of its parent: a bar is drawn at level L exactly when a
\* sibling of that ancestor is still to be emitted
IndentationMatchesTree ==
    (Plain /\ Walked) =>
        \A i \in DOMAIN emitted :
           \A L \in 1..(emitted[i].depth - 1) :
              /\ SegmentOfLine(i, L) \in {<<32, 32, 32, 32>>, <<124, 32, 32, 32>>}
              /\ SegmentOfLine(i, L) = <<124, 32, 32, 32>>
                    <=> SiblingToCome(i, AncestorAtDepth(emitted[i].path, L))

\* every entry of the tree is a file or a directory
OnlyFilesAndDirectories == \A p \in DOMAIN fs : fs[p] \in {"file", "dir"}

\* the same on the trees that hold files and directories alone
IndentationMatchesTreeOfFilesAndDirectories ==
    OnlyFilesAndDirectories => IndentationMatchesTree

(***************************************************************************)
(* The lines as a function of the nodes so far                             *)
(***************************************************************************)
RECURSIVE ExhaustedOf(_)
\* the exhausted set after the nodes of a stream, taken one by one
ExhaustedOf(nodes) ==
    IF nodes = <<>> THEN {}
    ELSE LET before == ExhaustedOf(SubSeq(nodes, 1, Len(nodes) - 1))
             node == nodes[Len(nodes)]
         IN  IF node.is_last_child THEN before \cup {node.depth}
             ELSE before \ {node.depth}

\* the line of the last node of a stream, from the nodes of the stream alone
RenderedLine(nodes) ==
    LET node == nodes[Len(nodes)]
    IN  Segments(ExhaustedOf(nodes), 1, node.depth - 1) \o NodeStr(node)

\* the lines printed before a step are the first lines printed after it
PrintedLinesStay ==
    pc = "running" =>
        /\ Len(printed') >= Len(printed)
        /\ SubSeq(printed', 1, Len(printed)) = printed

LinesAreOfTheNodesSoFar ==
    Built =>
        /\ Len(printed) = Len(emitted)
        /\ \A k \in DOMAIN printed : printed[k] = RenderedLine(SubSeq(emitted, 1, k))

\* C29: the line of the k-th node depends on the nodes 1..k of the stream
\* alone: the first k lines are a function of the first k nodes, whatever
\* follows them, so two streams with the same first k nodes give the same
\* first k lines
LinesDependOnPastNodesOnly ==
    []LinesAreOfTheNodesSoFar /\ [][PrintedLinesStay]_vars

\* a node at depth 2 was printed and other nodes came after it
LinesDependOnPastWitness ==
    /\ Walked
    /\ \E k \in DOMAIN printed :
          /\ emitted[k].depth = 2
          /\ k < Len(printed)
          /\ printed[k] = RenderedLine(SubSeq(emitted, 1, k))

(***************************************************************************)
(* The last-child flag in dataset mode                                     *)
(***************************************************************************)
\* the entry is a retained dataset or has one below it
LeadsToDataset(p) ==
    p \in InScopeDatasets \/ \E q \in InScopeDatasets : IsBelow(q, p)

\* the entry is the last, by name, of the entries of its parent that are
\* or lead to a retained dataset
LastThatLeadsToDataset(p) ==
    /\ LeadsToDataset(p)
    /\ \A q \in DOMAIN fs :
          (q # p /\ PathParent(q) = PathParent(p) /\ LeadsToDataset(q))
             => PathLess(q, p)

\* the nodes of the pass that gives the datasets and the directories above
\* them, the root left aside
PassNodes == {i \in DOMAIN emitted : content_of[i] = <<>> /\ emitted[i].depth > 0}

\* C30: in dataset mode the is_last_child flag of an emitted ancestor
\* directory, and of an emitted dataset node, is set if and only if the
\* node is the last, by name, of the children of its parent that are or
\* lead to a retained dataset; so of the nodes the pass emits under one
\* parent exactly the last one carries the flag
LastChildAmongPathsToDatasets ==
    DatasetMode =>
        /\ \A i \in PassNodes :
              emitted[i].is_last_child <=> LastThatLeadsToDataset(emitted[i].path)
        /\ Walked =>
              \A i \in PassNodes :
                 emitted[i].is_last_child <=>
                    ~\E j \in PassNodes :
                        /\ j > i
                        /\ PathParent(emitted[j].path) = PathParent(emitted[i].path)

\* C31: in one traversal of a DatasetTree no path is emitted more than once
\* (as ancestor of a dataset, as dataset, or as content of a dataset)
NoPathEmittedTwice ==
    DatasetMode =>
        \A i, j \in 1..Len(emitted) :
            emitted[i].path = emitted[j].path => i = j

\* C32: during one traversal the body of is_dataset runs at most once for
\* each path, however many paths are visited, and every call for one path
\* returns the same result even if the answer changes during the walk
IsDatasetDecidedOncePerPath ==
    scan # <<>> =>
        \A p \in DOMAIN probes :
            /\ probes[p] <= 1
            /\ Cardinality(decided[p]) <= 1

\* as long as no more paths are asked about than the cache holds, that is so
IsDatasetDecidedOnceWithinMaxsize ==
    (scan # <<>> /\ Cardinality(DOMAIN probes) <= LruMaxsize) =>
        \A p \in DOMAIN probes :
            /\ probes[p] <= 1
            /\ Cardinality(decided[p]) <= 1

\* the datasets properly above a path
AllDatasetsAbove(p) ==
    {q \in datasets : Len(q) < Len(p) /\ is_relative_to(p, q)}

\* the depths of a dataset node are the numbers of datasets above it: all
\* of them, and those at or below the tree root
DepthsCountAllDatasetsAbove(n) ==
    /\ n.ds_absolute_depth = Cardinality(AllDatasetsAbove(n.path))
    /\ n.ds_depth = Cardinality({q \in AllDatasetsAbove(n.path) :
                                    is_relative_to(q, tree.root)})
    /\ 0 <= n.ds_depth
    /\ n.ds_depth <= n.ds_absolute_depth

\* C33: the construction of a dataset node succeeds, also for the tree
\* root with superdatasets above it, and its ds_absolute_depth is the
\* number of datasets above it and its ds_depth the number of those at or
\* below the tree root, so that 0 <= ds_depth <= ds_absolute_depth
DatasetNodesAreBuiltWithTheirDepths ==
    /\ pc # "crashed"
    /\ \A i \in DOMAIN emitted :
          emitted[i].kind = "DatasetNode" => DepthsCountAllDatasetsAbove(emitted[i])

\* the dataset nodes that are built have the numbers of datasets above
\* them as their depths
BuiltDatasetNodesHaveTheirDepths ==
    \A i \in DOMAIN emitted :
        emitted[i].kind = "DatasetNode" => DepthsCountAllDatasetsAbove(emitted[i])

\* the loop of calculate_dataset_depth is running or has ended
InDepthWalk ==
    call # <<>> /\ call.func = "calculate_dataset_depth" /\ outcome # <<>>

\* the datasets above the node: what get_superdataset() names above it
ProperAncestorDatasets ==
    {q \in Hierarchy :
        /\ IsBelow(call.path, q)
        /\ \E p \in Hierarchy : call.get_superdataset[p] = Some(q)}

\* the walk has moved up at most once per dataset above the node
DepthWalkWithinAncestors ==
    InDepthWalk => outcome[1].turns <= Cardinality(ProperAncestorDatasets)

\* a turn of the loop ends it or moves ds strictly up, and the turn that
\* finds the dataset itself ends it with the depths as they were
DepthWalkMovesUpOrEnds ==
    (InDepthWalk /\ outcome[1].at = "loop" /\ outcome' # outcome) =>
        /\ \/ outcome'[1].at # "loop"
           \/ IsBelow(outcome[1].ds, outcome'[1].ds)
        /\ call.get_superdataset[outcome[1].ds] = Some(outcome[1].ds) =>
              /\ outcome'[1].at = "returned"
              /\ outcome'[1].ds_depth = outcome[1].ds_depth
              /\ outcome'[1].ds_absolute_depth = outcome[1].ds_absolute_depth

\* C34: the upward walk of calculate_dataset_depth terminates when
\* get_superdataset returns nothing, the dataset itself or a dataset
\* strictly above: every turn ends the loop or moves strictly up, it moves
\* up at most as many times as there are datasets above the node, and the
\* dataset returning itself ends the walk without adding to either depth
DepthWalkTerminates ==
    []DepthWalkWithinAncestors /\ [][DepthWalkMovesUpOrEnds]_vars

\* a walk that went up twice and ended at a dataset that returned itself
DepthWalkTerminatesWitness ==
    /\ InDepthWalk
    /\ outcome[1].at = "returned"
    /\ outcome[1].turns = 2
    /\ call.get_superdataset[outcome[1].ds] = Some(outcome[1].ds)
    /\ outcome[1].ds_absolute_depth = 2
    /\ outcome[1].ds_depth = 1

\* the generator of the statistics collector exists
WrapperCalled ==
    call # <<>> /\ call.func = "increment_node_count" /\ outcome # <<>>

\* the node the collector took last is of none of the three known kinds
TookUnknownKind ==
    /\ outcome[1].taken > 0
    /\ call.nodes[outcome[1].taken].kind \notin DOMAIN ZeroStats

\* how many of the nodes ns are of kind k and below the root
CountOf(ns, k) ==
    Cardinality({i \in DOMAIN ns : ns[i].kind = k /\ ns[i].depth > 0})

\* C35: the statistics collector raises as soon as the wrapped generator
\* gives a node of a kind other than DirectoryNode, DatasetNode, FileNode:
\* that node is not yielded and changes no counter; the nodes of known
\* kinds before it are yielded unchanged and in their order
CollectorRaisesOnUnknownKind ==
    WrapperCalled =>
        LET o == outcome[1]
            passed == IF o.at = "raised" THEN o.taken - 1 ELSE o.taken
        IN  /\ (o.at = "raised") = TookUnknownKind
            /\ o.yielded = SubSeq(call.nodes, 1, passed)
            /\ \A i \in DOMAIN o.yielded : o.yielded[i].kind \in DOMAIN ZeroStats
            /\ \A k \in DOMAIN ZeroStats : o.stats[k] = CountOf(o.yielded, k)

\* the collector has raised on the third node, after a counted node and
\* the root
CollectorRaisesWitness ==
    /\ WrapperCalled
    /\ outcome[1].at = "raised"
    /\ outcome[1].taken = 3
    /\ Len(outcome[1].yielded) = 2
    /\ outcome[1].stats.FileNode = 1
    /\ outcome[1].yielded[1].depth = 0

\* what one traversal gives when it runs alone on a new Tree object
Alone == to_string(tree, <<>>, ZeroStats, "ascending")

\* the generator k has ended, and its Tree object has what the traversal
\* alone gives: the same lines yielded, the same statistics
EndsAsAlone(k) ==
    generators[k].at \in {"done", "raised"} =>
        /\ generators[k].at = "raised" <=> Alone.raised
        /\ generators[k].yielded = Alone.lines
        /\ \A j \in 1..2 :
              generators[j].at \in {"done", "raised"} =>
                  objects[generators[k].of].stats = Alone.stats

\* C36: two traversals whose steps are interleaved do not disturb each
\* other: each yields the lines, and ends with the statistics, that it
\* gives when it runs alone
InterleavedTraversalsAreIndependent ==
    generators # <<>> => \A k \in 1..2 : EndsAsAlone(k)

\* two generators of two Tree objects do not disturb each other
TraversalsOfTwoObjectsAreIndependent ==
    (generators # <<>> /\ generators[2].of # generators[1].of) =>
        \A k \in 1..2 : EndsAsAlone(k)

\* a second print_line() generator of the Tree has been consumed to its
\* end, after a first one was
ConsumedTwice == first # <<>> /\ pc = "done"

\* C37: a second print_line() on a Tree whose first print_line() was
\* consumed to its end yields the items the first yielded, the same lines
\* and nothing else, without walking the directory again and without
\* changing the counters
ReplayYieldsTheFirstItems ==
    ConsumedTwice =>
        /\ printed = first[1].printed
        /\ stats = first[1].stats
        /\ emitted = <<>>
        /\ listed = {}

\* when the first has yielded a line, the second yields each line of the
\* first and a newline after each, the counters are unchanged and no node
\* is generated again
ReplayKeepsLinesAndCounters ==
    (ConsumedTwice /\ first[1].printed # <<>>) =>
        /\ printed = [i \in 1..(2 * Len(first[1].printed)) |->
                          IF i % 2 = 1 THEN first[1].printed[(i + 1) \div 2]
                                       ELSE <<Newline>>]
        /\ lines = first[1].printed
        /\ stats = first[1].stats
        /\ emitted = <<>>
        /\ listed = {}

====
